---- MODULE Spec2Model ----
(***************************************************************************)
(* LuaCppMsg: the thread-safe queue of variant messages of                 *)
(* include/LuaCppMsg.hpp (Message, Message::Nested, CopyPtr, Queue).       *)
(*                                                                         *)
(* An Item (boost::variant) is a record [tag, val]; the tag is the type    *)
(* the variant currently holds.  A Map item's val is a function from Keys  *)
(* to Items.  A Key is a record [tag, val] with tag "Int" or "Str".        *)
(* Numbers are written in tenths (3.1 is 31).                              *)
(***************************************************************************)
EXTENDS Integers, Sequences, FiniteSets, TLC

VARIABLES
    m_queue,    \* Queue::m_queue, the std::queue<Item>, front first
    m_mutex,    \* Queue::m_mutex: the thread that holds it, or NoThread
    objects,    \* the CustomType objects owned outside the queue, by address
    pc,         \* per thread: where it is inside its current Queue call
    frame,      \* per thread: the call's operation, argument and locals
    ret,        \* per thread: what its last completed call returned
    nested,     \* per thread: the Message::Nested it holds on its Message
    result,     \* per thread: outcome of its last as<T>() / get(key)
    pushed,     \* history: the pushes, in the order they appended
    popped,     \* history: the Items handed out by pop, in dequeue order
    calls,      \* history: number of push calls started
    crashed,    \* the process died on undefined behaviour
    m_lua,      \* per Queue instance: Queue::m_lua, the Lua state it is bound to
    bound_states,  \* Queue::bound_states(), the static set of bound Lua states
    registered, \* per Lua state: the registerFunction calls made into it
    globals,    \* per Lua state: the Queue each global name designates
    destructed, \* the Queue instances whose destructor has run
    pop_attempts,  \* history: pop calls made by the loops of the workers
    others      \* per other Queue instance: its m_queue, its m_mutex, and
                \* per thread the position and frame of a call on it

luaVars == <<m_lua, bound_states, registered, globals, destructed>>

vars == <<m_queue, m_mutex, objects, pc, frame, ret, nested, result,
          pushed, popped, calls, crashed, m_lua, bound_states, registered,
          globals, destructed, pop_attempts, others>>

----------------------------------------------------------------------------
(* Bounds *)

NumThreads == 2         \* threads of the concurrent specification
MaxThreadPushes == 3    \* push calls in the concurrent specification
MaxPushes == 1          \* push calls in the single-caller specification
NumObjects == 1         \* external CustomType objects
MaxFailures == 1        \* pushes whose copy of a payload throws
MaxLivePushes == 2      \* push calls in the specification with fairness
NumQueues == 2          \* Queue instances of the same type
NumStates == 2          \* Lua states (lua_State objects)
MaxPopAttempts == 1     \* pop calls of the workers' loops
MaxPops == 2            \* pop calls on the Queue of Queue.cpp

----------------------------------------------------------------------------
(* Message::Key, Message::Item, Message::Map *)

IntKey(i) == [tag |-> "Int", val |-> i]
StrKey(s) == [tag |-> "Str", val |-> s]

BoolItem(b) == [tag |-> "Bool", val |-> b]
NumItem(n) == [tag |-> "Num", val |-> n]
StrItem(s) == [tag |-> "Str", val |-> s]
CustomItem(c) == [tag |-> "CustomType", val |-> c]
CopyPtrItem(a) == [tag |-> "CopyPtr", val |-> a]
MapItem(f) == [tag |-> "Map", val |-> f]

NoItem == [tag |-> "None", val |-> 0]

\* the unsigned that size() returns, tagged like the other returned values
Unsigned(n) == [tag |-> "unsigned", val |-> n]

\* The types a variant of Queue<CustomType, CopyPtr<CustomType>*> can hold.
ItemTags == {"Bool", "Num", "Str", "CustomType", "CopyPtr", "Map"}

\* one-entry and empty maps, written as functions
EmptyMap == <<>>
Entry(k, v) == k :> v

----------------------------------------------------------------------------
(* The outside world: threads, external objects, the values callers build *)

Threads == 1..NumThreads
MainThread == 1           \* the thread that also runs the Lua state
NoThread == 0

Addrs == 1..NumObjects

Queues == 1..NumQueues
ThisQueue == 1            \* the instance whose m_queue and m_mutex are modelled
NoQueue == 0              \* nil: the global name is not set
OtherQueues == Queues \ {ThisQueue}
LuaStates == 1..NumStates
NoState == 0              \* m_lua is null: bind was not called
Names == {"lqueue", "q"}  \* names of globals given to to_lua
LiveVal == 7              \* new CustomType(7), the external object's val
CustomVals == {5, LiveVal}   \* what a read of freed memory may find

\* The values of test.cpp and of the specification's examples, and the
\* wrappings of every leaf kind in one and in two levels of Map.
Leaves ==
    {BoolItem(TRUE), BoolItem(FALSE), NumItem(31), StrItem("X"),
     CustomItem(5)} \cup {CopyPtrItem(a) : a \in Addrs}

Wrap(k, S) == {MapItem(Entry(k, v)) : v \in S}

ExampleMap ==
    MapItem(Entry(StrKey("type"), StrItem("X"))
            @@ Entry(StrKey("nested"), MapItem(Entry(StrKey("flag"), BoolItem(TRUE))))
            @@ Entry(IntKey(7), NumItem(31)))

MixedKeyMap ==
    MapItem(Entry(IntKey(7), NumItem(31)) @@ Entry(StrKey("7"), StrItem("X")))

UnsafeMaps ==
    {MapItem(Entry(StrKey("temp"), CopyPtrItem(a))
             @@ Entry(StrKey("nested"), MapItem(Entry(StrKey("temp"), CopyPtrItem(a))))
             @@ Entry(IntKey(7), CustomItem(5))) : a \in Addrs}

Inputs ==
    Leaves
    \cup {MapItem(EmptyMap), ExampleMap, MixedKeyMap}
    \cup UnsafeMaps
    \cup Wrap(StrKey("temp"), {CopyPtrItem(a) : a \in Addrs})
    \cup Wrap(StrKey("nested"), Wrap(StrKey("flag"), {BoolItem(TRUE), NumItem(31), StrItem("X")}))

CStrings == {"MOCK"}      \* arguments of push(const char*)

\* the object of the tests, CustomType* temporary = new CustomType(7), and
\* the Map that holds the pointer to it
temporary == CHOOSE a \in Addrs : \A b \in Addrs : a <= b
UnsafeMap ==
    CHOOSE m \in UnsafeMaps : m.val[StrKey("temp")] = CopyPtrItem(temporary)

Keys == {IntKey(7), StrKey("7"), StrKey("type"), StrKey("nested"),
         StrKey("flag"), StrKey("temp")}

----------------------------------------------------------------------------
(* Structure of Items *)

RECURSIVE HasCopyPtr(_)
\* some node of the tree, at any depth, is a CopyPtr<T>*
HasCopyPtr(item) ==
    \/ item.tag = "CopyPtr"
    \/ /\ item.tag = "Map"
       /\ \E k \in DOMAIN item.val : HasCopyPtr(item.val[k])

RECURSIVE Primitive(_)
\* a Boolean, Number or String, or a Map of such values
Primitive(item) ==
    \/ item.tag \in {"Bool", "Num", "Str"}
    \/ /\ item.tag = "Map"
       /\ \A k \in DOMAIN item.val : Primitive(item.val[k])

----------------------------------------------------------------------------
(* Queue::CopyVisitor *)

RECURSIVE CopyVisitor_keeps_pointer(_, _)
\* a visitor without the CopyPtr<T>* overload: the pointer is stored as it is
CopyVisitor_keeps_pointer(to_copy, is_const) ==
    IF to_copy.tag = "Map" /\ ~is_const
    THEN MapItem([k \in DOMAIN to_copy.val |->
                     CopyVisitor_keeps_pointer(to_copy.val[k], FALSE)])
    ELSE to_copy

RECURSIVE CopyVisitor_bool_as_number(_, _)
\* a pass-through that builds the returned Item from a bool as a Number
CopyVisitor_bool_as_number(to_copy, is_const) ==
    IF to_copy.tag = "CopyPtr"
    THEN CustomItem(objects[to_copy.val].val)
    ELSE IF to_copy.tag = "Map" /\ ~is_const
    THEN MapItem([k \in DOMAIN to_copy.val |->
                     CopyVisitor_bool_as_number(to_copy.val[k], FALSE)])
    ELSE IF to_copy.tag = "Bool"
    THEN NumItem(IF to_copy.val THEN 10 ELSE 0)
    ELSE to_copy

RECURSIVE CopyVisitor_only_pointers(_, _)
\* a visitor that rebuilds a Map from the entries it had to copy only
CopyVisitor_only_pointers(to_copy, is_const) ==
    IF to_copy.tag = "CopyPtr"
    THEN CustomItem(objects[to_copy.val].val)
    ELSE IF to_copy.tag = "Map" /\ ~is_const
    THEN MapItem([k \in {j \in DOMAIN to_copy.val : HasCopyPtr(to_copy.val[j])} |->
                     CopyVisitor_only_pointers(to_copy.val[k], FALSE)])
    ELSE to_copy

RECURSIVE CopyVisitor(_, _)
\* boost::apply_visitor(CopyVisitor(), msg_).  is_const says the visited
\* Item is const (push(const Item&)): a const Map cannot bind to
\* operator()(Map&), so overload resolution takes operator()(T&) for it.
CopyVisitor(to_copy, is_const) ==
    IF to_copy.tag = "CopyPtr"
    THEN \* operator()(CopyPtr<T>*): return T(*((T*)to_copy))
         CustomItem(objects[to_copy.val].val)
    ELSE IF to_copy.tag = "Map" /\ ~is_const
    THEN \* operator()(Map&): visit every item.second, non-const
         MapItem([k \in DOMAIN to_copy.val |-> CopyVisitor(to_copy.val[k], FALSE)])
    ELSE \* operator()(T&): pass-through
         to_copy

RECURSIVE Dereferenced(_, _)
\* the addresses CopyVisitor reads through while visiting to_copy
Dereferenced(to_copy, is_const) ==
    IF to_copy.tag = "CopyPtr"
    THEN {to_copy.val}
    ELSE IF to_copy.tag = "Map" /\ ~is_const
    THEN UNION {Dereferenced(to_copy.val[k], FALSE) : k \in DOMAIN to_copy.val}
    ELSE {}

RECURSIVE CustomPaths(_)
\* where the tree holds CustomType payloads: the paths to them
CustomPaths(item) ==
    IF item.tag = "CustomType" THEN {<<>>}
    ELSE IF item.tag = "Map"
    THEN UNION {{<<k>> \o p : p \in CustomPaths(item.val[k])} :
                   k \in DOMAIN item.val}
    ELSE {}

RECURSIVE PayloadCopies(_, _)
\* the nodes for which CopyVisitor runs the copy constructor of CustomType:
\* T(*((T*)to_copy)) for a pointer, and std::move(to_copy) of a const T&,
\* which copies; a non-const T is moved
PayloadCopies(to_copy, is_const) ==
    IF to_copy.tag = "CopyPtr"
    THEN {<<>>}
    ELSE IF to_copy.tag = "Map" /\ ~is_const
    THEN UNION {{<<k>> \o p : p \in PayloadCopies(to_copy.val[k], FALSE)} :
                   k \in DOMAIN to_copy.val}
    ELSE IF is_const
    THEN CustomPaths(to_copy)
    ELSE {}

RECURSIVE VisitDone(_, _)
\* the Item msg_ as the visitor of push(Item&&) / push_lua has left it when
\* it is interrupted: operator()(Map&) assigns each visited child back in
\* place (item.second = ...), so the pointers at the paths of done have
\* been replaced by their copies and the others have not
VisitDone(to_copy, done) ==
    IF to_copy.tag = "Map"
    THEN MapItem([k \in DOMAIN to_copy.val |->
            IF to_copy.val[k].tag = "CopyPtr"
            THEN IF <<k>> \in done
                 THEN CustomItem(objects[to_copy.val[k].val].val)
                 ELSE to_copy.val[k]
            ELSE VisitDone(to_copy.val[k],
                           {Tail(q) : q \in {r \in done : Head(r) = k}})])
    ELSE to_copy

----------------------------------------------------------------------------
(* Message and Message::Nested *)

\* Message(Item&&) and Message(const Item&): both copy-construct m_item
\* (the named rvalue reference item_ is an lvalue in the initializer).
Message(item_) == [m_item |-> item_]

RECURSIVE ItemAt(_, _)
\* the Item a pointer into the tree designates: the path of keys from root
ItemAt(root, path) ==
    IF path = <<>> THEN root
    ELSE ItemAt(root.val[Head(path)], Tail(path))

\* a get that converts a bool to the Number asked for
BoostGet_coercing(item, T) ==
    IF item.tag = T
    THEN [outcome |-> "value", val |-> item]
    ELSE IF item.tag = "Bool" /\ T = "Num"
    THEN [outcome |-> "value", val |-> NumItem(IF item.val THEN 10 ELSE 0)]
    ELSE [outcome |-> "TypeMismatch", val |-> NoItem]

\* boost::get<T>(item): the payload, or boost::bad_get
BoostGet(item, T) ==
    IF item.tag = T
    THEN [outcome |-> "value", val |-> item]
    ELSE [outcome |-> "TypeMismatch", val |-> NoItem]

\* Message::as<T>() / Nested::as<T>() on the Item designated by path
As(root, path, T) == BoostGet(ItemAt(root, path), T)

RECURSIVE Replace(_, _, _)
\* the tree root with the Item designated by path replaced by item
Replace(root, path, item) ==
    IF path = <<>> THEN item
    ELSE MapItem([root.val EXCEPT
                    ![Head(path)] = Replace(@, Tail(path), item)])

\* a lookup with map[key_]: a missing key is inserted with a
\* default-constructed Item (the first type of the variant, false)
At_inserting(map, key_) ==
    [found |-> TRUE,
     map |-> IF key_ \in DOMAIN map THEN map
             ELSE map @@ Entry(key_, BoolItem(FALSE))]

\* map.at(key_) on the const Map&: the element, or std::out_of_range; map
\* is the Map after the call
At(map, key_) == [found |-> key_ \in DOMAIN map, map |-> map]

\* a get that looks the key up before it checks for a Map
Get_lookup_first(root, path, key_) ==
    LET item == ItemAt(root, path) IN
    IF item.tag # "Map" \/ key_ \notin DOMAIN item.val
    THEN [outcome |-> "KeyNotFound", m_pitem |-> <<>>, m_item |-> root]
    ELSE [outcome |-> "nested", m_pitem |-> Append(path, key_), m_item |-> root]

\* a get that returns Nested(m_pitem), the Map itself, instead of Nested(&item)
Get_same_item(root, path, key_) ==
    LET map == BoostGet(ItemAt(root, path), "Map") IN
    IF map.outcome # "value"
    THEN [outcome |-> "TypeMismatch", m_pitem |-> <<>>, m_item |-> root]
    ELSE IF key_ \notin DOMAIN map.val.val
    THEN [outcome |-> "KeyNotFound", m_pitem |-> <<>>, m_item |-> root]
    ELSE [outcome |-> "nested", m_pitem |-> path, m_item |-> root]

\* the characters a key prints as
KeyText(k) == IF k.tag = "Int" THEN ToString(k.val) ELSE k.val

\* a get over a Map whose keys are compared by their text
Get_keys_as_text(root, path, key_) ==
    LET map == BoostGet(ItemAt(root, path), "Map") IN
    IF map.outcome # "value"
    THEN [outcome |-> "TypeMismatch", m_pitem |-> <<>>, m_item |-> root]
    ELSE LET same == {k \in DOMAIN map.val.val : KeyText(k) = KeyText(key_)} IN
         IF same = {}
         THEN [outcome |-> "KeyNotFound", m_pitem |-> <<>>, m_item |-> root]
         ELSE [outcome |-> "nested",
               m_pitem |-> Append(path, CHOOSE k \in same : k.tag = "Int" \/ same = {k}),
               m_item |-> root]

\* Message::get(key) / Nested::get(key): boost::get<Map>, then map.at(key).
\* m_item is the Message's tree after the call.
Get(root, path, key_) ==
    LET map == BoostGet(ItemAt(root, path), "Map") IN
    IF map.outcome # "value"
    THEN [outcome |-> "TypeMismatch", m_pitem |-> <<>>, m_item |-> root]
    ELSE LET at == At(map.val.val, key_) IN
         [outcome |-> IF at.found THEN "nested" ELSE "KeyNotFound",
          m_pitem |-> IF at.found THEN Append(path, key_) ELSE <<>>,
          m_item  |-> Replace(root, path, MapItem(at.map))]

----------------------------------------------------------------------------
(* Thread-local state *)

\* copied: the nodes of the call's Item whose CustomType payload the call
\* has copy-constructed so far; via: "direct" for a call of the member
\* function from C++, or the name of the method Lua code called
NoFrame == [op |-> "none", entry |-> "none", msg_ |-> NoItem, item |-> NoItem,
            copied |-> {}, via |-> "none"]
NoRet == [kind |-> "nothing", val |-> NoItem]
\* m_pitem is the pointer into the Message's tree; path is the history of
\* the keys the caller asked for to obtain this Nested
NoNested == [live |-> FALSE, m_pitem |-> <<>>, path |-> <<>>]
NoResult == [call |-> "none", on |-> <<>>, arg |-> NoItem,
             outcome |-> "none", val |-> NoItem]

\* a Queue instance other than ThisQueue, as constructed
NoOther == [m_queue |-> <<>>, m_mutex |-> NoThread,
            pc |-> [t \in Threads |-> "idle"],
            frame |-> [t \in Threads |-> NoFrame]]

\* Queue::size_unsafe: m_queue.size() as unsigned (the lengths reached here
\* are far below the width of unsigned, where the narrowing is the identity)
size_unsafe == Len(m_queue)

----------------------------------------------------------------------------
(* Initial state: Queue() = default, nothing called yet *)

Init ==
    /\ m_queue = <<>>
    /\ m_mutex = NoThread
    /\ objects = [a \in Addrs |-> [alive |-> TRUE, val |-> LiveVal]]
    /\ pc = [t \in Threads |-> "idle"]
    /\ frame = [t \in Threads |-> NoFrame]
    /\ ret = [t \in Threads |-> NoRet]
    /\ nested = [t \in Threads |-> NoNested]
    /\ result = [t \in Threads |-> NoResult]
    /\ pushed = <<>>
    /\ popped = <<>>
    /\ calls = 0
    /\ crashed = FALSE
    /\ m_lua = [q \in Queues |-> NoState]
    /\ bound_states = {}
    /\ registered = [L \in LuaStates |-> <<>>]
    /\ globals = [L \in LuaStates |-> [name \in Names |-> NoQueue]]
    /\ destructed = {}
    /\ pop_attempts = 0
    /\ others = [q \in OtherQueues |-> NoOther]

----------------------------------------------------------------------------
(* Calls: a thread enters an operation of the Queue *)

\* a call drops what the thread kept from its previous call
Enter(t, f) ==
    /\ ~crashed
    /\ pc[t] = "idle"
    /\ pc' = [pc EXCEPT ![t] = "lock"]
    /\ frame' = [frame EXCEPT ![t] = f]
    /\ ret' = [ret EXCEPT ![t] = NoRet]
    /\ nested' = [nested EXCEPT ![t] = NoNested]
    /\ result' = [result EXCEPT ![t] = NoResult]
    /\ UNCHANGED <<m_queue, m_mutex, objects, pushed, popped, crashed>>
    /\ UNCHANGED luaVars

\* push(const Item&) "const_ref", push(Item&&) "rvalue", push_lua(Item) "lua"
call_push(t, entry, v) ==
    /\ entry \in {"const_ref", "rvalue", "lua"}
    /\ Enter(t, [op |-> "push", entry |-> entry, msg_ |-> v, item |-> NoItem,
                 copied |-> {}, via |-> "direct"])
    /\ calls' = calls + 1
    /\ UNCHANGED <<pop_attempts, others>>

\* push(const char*)
call_push_cstr(t, s) ==
    /\ Enter(t, [op |-> "push", entry |-> "cstr", msg_ |-> StrItem(s), item |-> NoItem,
                 copied |-> {}, via |-> "direct"])
    /\ calls' = calls + 1
    /\ UNCHANGED <<pop_attempts, others>>

\* pop() "cpp", pop_lua() "lua"
call_pop(t, entry) ==
    /\ entry \in {"cpp", "lua"}
    /\ Enter(t, [op |-> "pop", entry |-> entry, msg_ |-> NoItem, item |-> NoItem,
                 copied |-> {}, via |-> "direct"])
    /\ UNCHANGED calls
    /\ UNCHANGED <<pop_attempts, others>>

\* size(), from either side
call_size(t) ==
    /\ Enter(t, [op |-> "size", entry |-> "cpp", msg_ |-> NoItem, item |-> NoItem,
                 copied |-> {}, via |-> "direct"])
    /\ UNCHANGED calls
    /\ UNCHANGED <<pop_attempts, others>>

\* one turn of a consumer's loop, for (i = 0; i < 95; i++) queue.pop(), or
\* of the Lua loop's lqueue:pop(): the call is counted
worker_pop(t, entry) ==
    /\ entry \in {"cpp", "lua"}
    /\ Enter(t, [op |-> "pop", entry |-> entry, msg_ |-> NoItem, item |-> NoItem,
                 copied |-> {}, via |-> "direct"])
    /\ UNCHANGED calls
    /\ pop_attempts' = pop_attempts + 1
    /\ UNCHANGED others

----------------------------------------------------------------------------
(* Steps inside the operations *)

\* size() that reads the length without taking the mutex
lock_guard_not_in_size(t) ==
    /\ ~crashed
    /\ pc[t] = "lock"
    /\ IF frame[t].op = "size"
       THEN UNCHANGED m_mutex
       ELSE m_mutex = NoThread /\ m_mutex' = t
    /\ pc' = [pc EXCEPT ![t] = "body"]
    /\ UNCHANGED <<m_queue, objects, frame, ret, nested, result, pushed, popped,
                   calls, crashed>>
    /\ UNCHANGED luaVars
    /\ UNCHANGED <<pop_attempts, others>>

\* a lock_guard on a mutex that is a static member, one for all instances
lock_guard_static_mutex(t) ==
    /\ ~crashed
    /\ pc[t] = "lock"
    /\ m_mutex = NoThread
    /\ \A q \in OtherQueues : others[q].m_mutex = NoThread
    /\ m_mutex' = t
    /\ pc' = [pc EXCEPT ![t] = "body"]
    /\ UNCHANGED <<m_queue, objects, frame, ret, nested, result, pushed, popped,
                   calls, crashed>>
    /\ UNCHANGED luaVars
    /\ UNCHANGED <<pop_attempts, others>>

\* std::lock_guard<std::mutex> lock(m_mutex): blocks until the mutex is free
lock_guard(t) ==
    /\ ~crashed
    /\ pc[t] = "lock"
    /\ m_mutex = NoThread
    /\ m_mutex' = t
    /\ pc' = [pc EXCEPT ![t] = "body"]
    /\ UNCHANGED <<m_queue, objects, frame, ret, nested, result, pushed, popped,
                   calls, crashed>>
    /\ UNCHANGED luaVars
    /\ UNCHANGED <<pop_attempts, others>>

\* a push that takes its argument for a Map: boost::get<Map>(msg_) throws
\* boost::bad_get for any other content
push_copy_expects_map(t) ==
    /\ ~crashed
    /\ pc[t] = "body"
    /\ frame[t].op = "push"
    /\ IF frame[t].msg_.tag = "Map"
       THEN /\ frame' = [frame EXCEPT ![t].item = CopyVisitor(frame[t].msg_, FALSE)]
            /\ pc' = [pc EXCEPT ![t] = "append"]
            /\ UNCHANGED ret
       ELSE /\ ret' = [ret EXCEPT ![t] = [kind |-> "TypeMismatch", val |-> NoItem]]
            /\ pc' = [pc EXCEPT ![t] = "unlock"]
            /\ UNCHANGED frame
    /\ UNCHANGED <<m_queue, m_mutex, objects, nested, result, pushed, popped,
                   calls, crashed>>
    /\ UNCHANGED luaVars
    /\ UNCHANGED <<pop_attempts, others>>

\* Item item = boost::apply_visitor(CopyVisitor(), msg_);
\* push(const char*) builds Item(Str(msg_)) without the visitor.
\* Reading through a pointer to a destroyed object yields whatever the
\* freed memory holds (or crashes, see push_copy_crash).
push_copy(t) ==
    /\ ~crashed
    /\ pc[t] = "body"
    /\ frame[t].op = "push"
    /\ frame' = [frame EXCEPT
                    ![t].item =
                        IF frame[t].entry = "cstr"
                        THEN frame[t].msg_
                        ELSE CopyVisitor(frame[t].msg_, frame[t].entry = "const_ref"),
                    ![t].copied =
                        IF frame[t].entry = "cstr"
                        THEN {}
                        ELSE PayloadCopies(frame[t].msg_, frame[t].entry = "const_ref")]
    /\ pc' = [pc EXCEPT ![t] = "append"]
    /\ UNCHANGED <<m_queue, m_mutex, objects, ret, nested, result, pushed, popped,
                   calls, crashed>>
    /\ UNCHANGED luaVars
    /\ UNCHANGED <<pop_attempts, others>>

\* the visitor dereferences a dangling CopyPtr<T>*: undefined behaviour,
\* one outcome of which is the death of the process
push_copy_crash(t) ==
    /\ ~crashed
    /\ pc[t] = "body"
    /\ frame[t].op = "push"
    /\ frame[t].entry # "cstr"
    /\ \E a \in Dereferenced(frame[t].msg_, frame[t].entry = "const_ref") :
            ~objects[a].alive
    /\ crashed' = TRUE
    /\ UNCHANGED <<m_queue, m_mutex, objects, pc, frame, ret, nested, result,
                   pushed, popped, calls>>
    /\ UNCHANGED luaVars
    /\ UNCHANGED <<pop_attempts, others>>

\* a push that locks and unlocks m_mutex by hand: the exception leaves the
\* function past the unlock
push_copy_throw_keeps_lock(t) ==
    /\ ~crashed
    /\ pc[t] = "body"
    /\ frame[t].op = "push"
    /\ PayloadCopies(frame[t].msg_, frame[t].entry = "const_ref") # {}
    /\ ret' = [ret EXCEPT ![t] = [kind |-> "exception", val |-> NoItem]]
    /\ frame' = [frame EXCEPT ![t] = NoFrame]
    /\ pc' = [pc EXCEPT ![t] = "idle"]
    /\ UNCHANGED <<m_queue, m_mutex, objects, nested, result, pushed, popped,
                   calls, crashed>>
    /\ UNCHANGED luaVars
    /\ UNCHANGED <<pop_attempts, others>>

\* The copy constructor of CustomType throws while the visitor runs (it
\* allocates): the exception leaves apply_visitor and push before
\* m_queue.push, and unwinding destroys the lock_guard.  Any of the copies
\* the visit makes may be the one that fails; done are those made before it.
push_copy_throw(t) ==
    /\ ~crashed
    /\ pc[t] = "body"
    /\ frame[t].op = "push"
    /\ frame[t].entry # "cstr"
    /\ LET is_const == frame[t].entry = "const_ref"
           all == PayloadCopies(frame[t].msg_, is_const)
       IN  \E done \in SUBSET all :
              /\ done # all
              /\ frame' = [frame EXCEPT
                              ![t].msg_ = IF is_const THEN @ ELSE VisitDone(@, done),
                              ![t].copied = done]
    /\ ret' = [ret EXCEPT ![t] = [kind |-> "exception", val |-> NoItem]]
    /\ pc' = [pc EXCEPT ![t] = "unlock"]
    /\ UNCHANGED <<m_queue, m_mutex, objects, nested, result, pushed, popped,
                   calls, crashed>>
    /\ UNCHANGED luaVars
    /\ UNCHANGED <<pop_attempts, others>>

\* a push that puts the item at the front of the sequence
push_append_at_front(t) ==
    /\ ~crashed
    /\ pc[t] = "append"
    /\ m_queue' = <<frame[t].item>> \o m_queue
    /\ pushed' = Append(pushed, [thread |-> t, entry |-> frame[t].entry,
                                 orig |-> frame[t].msg_, stored |-> frame[t].item])
    /\ ret' = [ret EXCEPT ![t] = [kind |-> "void", val |-> NoItem]]
    /\ frame' = [frame EXCEPT ![t].copied =
                    IF frame[t].entry = "lua"
                    THEN @ \cup CustomPaths(frame[t].item)
                    ELSE @]
    /\ pc' = [pc EXCEPT ![t] = "unlock"]
    /\ UNCHANGED <<m_mutex, objects, nested, result, popped, calls, crashed>>
    /\ UNCHANGED luaVars
    /\ UNCHANGED <<pop_attempts, others>>

\* m_queue.push(std::move(item)); push_lua has m_queue.push(item), which
\* copies the Item once more
push_append(t) ==
    /\ ~crashed
    /\ pc[t] = "append"
    /\ m_queue' = Append(m_queue, frame[t].item)
    /\ pushed' = Append(pushed, [thread |-> t, entry |-> frame[t].entry,
                                 orig |-> frame[t].msg_, stored |-> frame[t].item])
    /\ ret' = [ret EXCEPT ![t] = [kind |-> "void", val |-> NoItem]]
    /\ frame' = [frame EXCEPT ![t].copied =
                    IF frame[t].entry = "lua"
                    THEN @ \cup CustomPaths(frame[t].item)
                    ELSE @]
    /\ pc' = [pc EXCEPT ![t] = "unlock"]
    /\ UNCHANGED <<m_mutex, objects, nested, result, popped, calls, crashed>>
    /\ UNCHANGED luaVars
    /\ UNCHANGED <<pop_attempts, others>>

\* a pop that locks and unlocks m_mutex by hand and returns from the test
\* for the empty queue before the unlock
pop_check_return_keeps_lock(t) ==
    /\ ~crashed
    /\ pc[t] = "body"
    /\ frame[t].op = "pop"
    /\ IF size_unsafe = 0
       THEN /\ ret' = [ret EXCEPT ![t] = [kind |-> "none", val |-> NoItem]]
            /\ pc' = [pc EXCEPT ![t] = "idle"]
            /\ frame' = [frame EXCEPT ![t] = NoFrame]
       ELSE /\ pc' = [pc EXCEPT ![t] = "front"]
            /\ UNCHANGED <<ret, frame>>
    /\ UNCHANGED <<m_queue, m_mutex, objects, nested, result, pushed,
                   popped, calls, crashed>>
    /\ UNCHANGED luaVars
    /\ UNCHANGED <<pop_attempts, others>>

\* a pop that tests size() instead of size_unsafe(): the call requests
\* m_mutex, which the thread holds already
pop_check_locked_size(t) ==
    /\ ~crashed
    /\ pc[t] = "body"
    /\ frame[t].op = "pop"
    /\ pc' = [pc EXCEPT ![t] = "lock"]
    /\ UNCHANGED <<m_queue, m_mutex, objects, frame, ret, nested, result, pushed,
                   popped, calls, crashed>>
    /\ UNCHANGED luaVars
    /\ UNCHANGED <<pop_attempts, others>>

\* a pop that waits, with the mutex held, until there is an entry
pop_check_waiting(t) ==
    /\ ~crashed
    /\ pc[t] = "body"
    /\ frame[t].op = "pop"
    /\ size_unsafe # 0
    /\ pc' = [pc EXCEPT ![t] = "front"]
    /\ UNCHANGED <<m_queue, m_mutex, objects, frame, ret, nested, result, pushed,
                   popped, calls, crashed>>
    /\ UNCHANGED luaVars
    /\ UNCHANGED <<pop_attempts, others>>

\* a pop without the test for an empty queue
pop_check_no_empty_test(t) ==
    /\ ~crashed
    /\ pc[t] = "body"
    /\ frame[t].op = "pop"
    /\ pc' = [pc EXCEPT ![t] = "front"]
    /\ UNCHANGED <<m_queue, m_mutex, objects, frame, ret, nested, result, pushed,
                   popped, calls, crashed>>
    /\ UNCHANGED luaVars
    /\ UNCHANGED <<pop_attempts, others>>

\* if (!size_unsafe()) return boost::none;
pop_check(t) ==
    /\ ~crashed
    /\ pc[t] = "body"
    /\ frame[t].op = "pop"
    /\ IF size_unsafe = 0
       THEN /\ ret' = [ret EXCEPT ![t] = [kind |-> "none", val |-> NoItem]]
            /\ pc' = [pc EXCEPT ![t] = "unlock"]
       ELSE /\ pc' = [pc EXCEPT ![t] = "front"]
            /\ UNCHANGED ret
    /\ UNCHANGED <<m_queue, m_mutex, objects, frame, nested, result, pushed,
                   popped, calls, crashed>>
    /\ UNCHANGED luaVars
    /\ UNCHANGED <<pop_attempts, others>>

\* pop:     Msg msg(std::move(m_queue.front())) runs Message(Item&& item_)
\*          : m_item(item_), where the named item_ is an lvalue, so that
\*          m_item is copy-constructed, every payload with it;
\* pop_lua: Item msg(std::move(m_queue.front())) move-constructs.
\* front() of an empty std::queue is undefined behaviour.
pop_front(t) ==
    /\ ~crashed
    /\ pc[t] = "front"
    /\ IF m_queue = <<>>
       THEN /\ crashed' = TRUE
            /\ UNCHANGED <<pc, frame>>
       ELSE /\ frame' = [frame EXCEPT
                           ![t].item = Head(m_queue),
                           ![t].copied = IF frame[t].entry = "cpp"
                                         THEN CustomPaths(Head(m_queue))
                                         ELSE {}]
            /\ pc' = [pc EXCEPT ![t] = "dequeue"]
            /\ UNCHANGED crashed
    /\ UNCHANGED <<m_queue, m_mutex, objects, ret, nested, result, pushed, popped,
                   calls>>
    /\ UNCHANGED luaVars
    /\ UNCHANGED <<pop_attempts, others>>

\* a pop that empties the queue instead of removing the front entry
pop_dequeue_clears(t) ==
    /\ ~crashed
    /\ pc[t] = "dequeue"
    /\ m_queue # <<>>
    /\ m_queue' = <<>>
    /\ ret' = [ret EXCEPT ![t] =
                  IF frame[t].entry = "cpp"
                  THEN [kind |-> "msg", val |-> Message(frame[t].item)]
                  ELSE [kind |-> "item", val |-> frame[t].item]]
    /\ popped' = Append(popped, frame[t].item)
    /\ pc' = [pc EXCEPT ![t] = "unlock"]
    /\ UNCHANGED <<m_mutex, objects, frame, nested, result, pushed, calls,
                   crashed>>
    /\ UNCHANGED luaVars
    /\ UNCHANGED <<pop_attempts, others>>

\* a pop that returns the front entry without removing it
pop_dequeue_forgotten(t) ==
    /\ ~crashed
    /\ pc[t] = "dequeue"
    /\ m_queue # <<>>
    /\ ret' = [ret EXCEPT ![t] =
                  IF frame[t].entry = "cpp"
                  THEN [kind |-> "msg", val |-> Message(frame[t].item)]
                  ELSE [kind |-> "item", val |-> frame[t].item]]
    /\ popped' = Append(popped, frame[t].item)
    /\ pc' = [pc EXCEPT ![t] = "unlock"]
    /\ UNCHANGED <<m_queue, m_mutex, objects, frame, nested, result, pushed, calls,
                   crashed>>
    /\ UNCHANGED luaVars
    /\ UNCHANGED <<pop_attempts, others>>

\* m_queue.pop(); return msg;   (pop() of an empty std::queue: undefined)
pop_dequeue(t) ==
    /\ ~crashed
    /\ pc[t] = "dequeue"
    /\ IF m_queue = <<>>
       THEN /\ crashed' = TRUE
            /\ UNCHANGED <<m_queue, pc, ret, popped>>
       ELSE /\ m_queue' = Tail(m_queue)
            /\ ret' = [ret EXCEPT ![t] =
                          IF frame[t].entry = "cpp"
                          THEN [kind |-> "msg", val |-> Message(frame[t].item)]
                          ELSE [kind |-> "item", val |-> frame[t].item]]
            /\ popped' = Append(popped, frame[t].item)
            /\ pc' = [pc EXCEPT ![t] = "unlock"]
            /\ UNCHANGED crashed
    /\ UNCHANGED <<m_mutex, objects, frame, nested, result, pushed, calls>>
    /\ UNCHANGED luaVars
    /\ UNCHANGED <<pop_attempts, others>>

\* a size kept in a counter that push increments and pop forgets to
\* decrement
size_read_total_pushed(t) ==
    /\ ~crashed
    /\ pc[t] = "body"
    /\ frame[t].op = "size"
    /\ ret' = [ret EXCEPT ![t] = [kind |-> "size", val |-> Unsigned(Len(pushed))]]
    /\ pc' = [pc EXCEPT ![t] = "unlock"]
    /\ UNCHANGED <<m_queue, m_mutex, objects, frame, nested, result, pushed,
                   popped, calls, crashed>>
    /\ UNCHANGED luaVars
    /\ UNCHANGED <<pop_attempts, others>>

\* return size_unsafe();
size_read(t) ==
    /\ ~crashed
    /\ pc[t] = "body"
    /\ frame[t].op = "size"
    /\ ret' = [ret EXCEPT ![t] = [kind |-> "size", val |-> Unsigned(size_unsafe)]]
    /\ pc' = [pc EXCEPT ![t] = "unlock"]
    /\ UNCHANGED <<m_queue, m_mutex, objects, frame, nested, result, pushed,
                   popped, calls, crashed>>
    /\ UNCHANGED luaVars
    /\ UNCHANGED <<pop_attempts, others>>

\* ~lock_guard and return; the caller keeps the returned value or not
Return(t, kept) ==
    /\ ~crashed
    /\ pc[t] = "unlock"
    /\ m_mutex' = NoThread
    /\ pc' = [pc EXCEPT ![t] = "idle"]
    /\ frame' = [frame EXCEPT ![t] = NoFrame]
    /\ ret' = [ret EXCEPT ![t] = IF kept THEN ret[t] ELSE NoRet]
    /\ UNCHANGED <<m_queue, objects, nested, result, pushed, popped, calls,
                   crashed>>
    /\ UNCHANGED luaVars
    /\ UNCHANGED <<pop_attempts, others>>

\* the call was an initializer: Opt msg = queue.pop();
unlock(t) == Return(t, TRUE)

\* the call was a statement of a worker's loop: queue.pop();
unlock_discard(t) == Return(t, FALSE)

----------------------------------------------------------------------------
(* The same operations on another Queue instance q: its own m_queue and
   m_mutex.  The body, which runs under the lock of q, is one step. *)

\* thread t calls size, push (one of its overloads) or pop on instance q
other_call(q, t, op, entry, v) ==
    /\ ~crashed
    /\ pc[t] = "idle"
    /\ op \in {"size", "push", "pop"}
    /\ pc' = [pc EXCEPT ![t] = "elsewhere"]
    /\ others' = [others EXCEPT
                     ![q].pc[t] = "lock",
                     ![q].frame[t] = [NoFrame EXCEPT !.op = op, !.entry = entry,
                                                     !.msg_ = v, !.via = "direct"]]
    /\ ret' = [ret EXCEPT ![t] = NoRet]
    /\ nested' = [nested EXCEPT ![t] = NoNested]
    /\ result' = [result EXCEPT ![t] = NoResult]
    /\ UNCHANGED <<m_queue, m_mutex, objects, frame, pushed, popped, calls,
                   crashed, pop_attempts>>
    /\ UNCHANGED luaVars

\* std::lock_guard<std::mutex> lock(m_mutex) of instance q
other_lock_guard(q, t) ==
    /\ ~crashed
    /\ others[q].pc[t] = "lock"
    /\ others[q].m_mutex = NoThread
    /\ others' = [others EXCEPT ![q].m_mutex = t, ![q].pc[t] = "body"]
    /\ UNCHANGED <<m_queue, m_mutex, objects, pc, frame, ret, nested, result,
                   pushed, popped, calls, crashed, pop_attempts>>
    /\ UNCHANGED luaVars

\* the statements of size, push and pop of instance q after the lock_guard
other_body(q, t) ==
    /\ ~crashed
    /\ others[q].pc[t] = "body"
    /\ LET f == others[q].frame[t]
           queue == others[q].m_queue
       IN  CASE f.op = "size" ->
                  /\ ret' = [ret EXCEPT ![t] =
                                [kind |-> "size", val |-> Unsigned(Len(queue))]]
                  /\ others' = [others EXCEPT ![q].pc[t] = "unlock"]
             [] f.op = "push" ->
                  /\ ret' = [ret EXCEPT ![t] = [kind |-> "void", val |-> NoItem]]
                  /\ others' = [others EXCEPT
                                   ![q].pc[t] = "unlock",
                                   ![q].m_queue =
                                       Append(@, CopyVisitor(f.msg_, f.entry = "const_ref"))]
             [] f.op = "pop" ->
                  IF queue = <<>>
                  THEN /\ ret' = [ret EXCEPT ![t] = [kind |-> "none", val |-> NoItem]]
                       /\ others' = [others EXCEPT ![q].pc[t] = "unlock"]
                  ELSE /\ ret' = [ret EXCEPT ![t] =
                                     [kind |-> "msg", val |-> Message(Head(queue))]]
                       /\ others' = [others EXCEPT ![q].pc[t] = "unlock",
                                                   ![q].m_queue = Tail(@)]
    /\ UNCHANGED <<m_queue, m_mutex, objects, pc, frame, nested, result,
                   pushed, popped, calls, crashed, pop_attempts>>
    /\ UNCHANGED luaVars

\* ~lock_guard of instance q, and return to the caller
other_return(q, t) ==
    /\ ~crashed
    /\ others[q].pc[t] = "unlock"
    /\ others' = [others EXCEPT ![q].m_mutex = NoThread,
                                ![q].pc[t] = "idle",
                                ![q].frame[t] = NoFrame]
    /\ pc' = [pc EXCEPT ![t] = "idle"]
    /\ UNCHANGED <<m_queue, m_mutex, objects, frame, ret, nested, result,
                   pushed, popped, calls, crashed, pop_attempts>>
    /\ UNCHANGED luaVars

----------------------------------------------------------------------------
(* The consumer's side: as<T>() and get(key) on a popped Message *)

TypeArg(T) == [tag |-> "Type", val |-> T]

\* Message::as<T>()
message_as(t, T) ==
    /\ ~crashed
    /\ pc[t] = "idle"
    /\ ret[t].kind = "msg"
    /\ LET r == As(ret[t].val.m_item, <<>>, T) IN
       result' = [result EXCEPT ![t] =
                    [call |-> "Message::as", on |-> <<>>, arg |-> TypeArg(T),
                     outcome |-> r.outcome, val |-> r.val]]
    /\ UNCHANGED <<m_queue, m_mutex, objects, pc, frame, ret, nested, pushed,
                   popped, calls, crashed>>
    /\ UNCHANGED luaVars
    /\ UNCHANGED <<pop_attempts, others>>

\* Message::get(key): on success the caller holds a Nested(&item)
message_get(t, key_) ==
    /\ ~crashed
    /\ pc[t] = "idle"
    /\ ret[t].kind = "msg"
    /\ LET r == Get(ret[t].val.m_item, <<>>, key_) IN
       /\ result' = [result EXCEPT ![t] =
                       [call |-> "Message::get", on |-> <<>>, arg |-> key_,
                        outcome |-> r.outcome, val |-> NoItem]]
       /\ nested' = [nested EXCEPT ![t] =
                       IF r.outcome = "nested"
                       THEN [live |-> TRUE, m_pitem |-> r.m_pitem,
                             path |-> <<key_>>]
                       ELSE NoNested]
       /\ ret' = [ret EXCEPT ![t].val.m_item = r.m_item]
    /\ UNCHANGED <<m_queue, m_mutex, objects, pc, frame, pushed, popped,
                   calls, crashed>>
    /\ UNCHANGED luaVars
    /\ UNCHANGED <<pop_attempts, others>>

\* Nested::as<T>()
nested_as(t, T) ==
    /\ ~crashed
    /\ pc[t] = "idle"
    /\ ret[t].kind = "msg"
    /\ nested[t].live
    /\ LET r == As(ret[t].val.m_item, nested[t].m_pitem, T) IN
       result' = [result EXCEPT ![t] =
                    [call |-> "Nested::as", on |-> nested[t].path,
                     arg |-> TypeArg(T), outcome |-> r.outcome, val |-> r.val]]
    /\ UNCHANGED <<m_queue, m_mutex, objects, pc, frame, ret, nested, pushed,
                   popped, calls, crashed>>
    /\ UNCHANGED luaVars
    /\ UNCHANGED <<pop_attempts, others>>

\* a Nested::get that looks the key up in the root Map of the Message
nested_get_from_root(t, key_) ==
    /\ ~crashed
    /\ pc[t] = "idle"
    /\ ret[t].kind = "msg"
    /\ nested[t].live
    /\ LET r == Get(ret[t].val.m_item, <<>>, key_) IN
       /\ result' = [result EXCEPT ![t] =
                       [call |-> "Nested::get", on |-> nested[t].path,
                        arg |-> key_, outcome |-> r.outcome, val |-> NoItem]]
       /\ nested' = [nested EXCEPT ![t] =
                       IF r.outcome = "nested"
                       THEN [live |-> TRUE, m_pitem |-> r.m_pitem,
                             path |-> Append(nested[t].path, key_)]
                       ELSE NoNested]
       /\ ret' = [ret EXCEPT ![t].val.m_item = r.m_item]
    /\ UNCHANGED <<m_queue, m_mutex, objects, pc, frame, pushed, popped,
                   calls, crashed>>
    /\ UNCHANGED luaVars
    /\ UNCHANGED <<pop_attempts, others>>

\* Nested::get(key): the chained get(a).get(b); the temporary Nested the call
\* was made on is gone afterwards
nested_get(t, key_) ==
    /\ ~crashed
    /\ pc[t] = "idle"
    /\ ret[t].kind = "msg"
    /\ nested[t].live
    /\ LET r == Get(ret[t].val.m_item, nested[t].m_pitem, key_) IN
       /\ result' = [result EXCEPT ![t] =
                       [call |-> "Nested::get", on |-> nested[t].path,
                        arg |-> key_, outcome |-> r.outcome, val |-> NoItem]]
       /\ nested' = [nested EXCEPT ![t] =
                       IF r.outcome = "nested"
                       THEN [live |-> TRUE, m_pitem |-> r.m_pitem,
                             path |-> Append(nested[t].path, key_)]
                       ELSE NoNested]
       /\ ret' = [ret EXCEPT ![t].val.m_item = r.m_item]
    /\ UNCHANGED <<m_queue, m_mutex, objects, pc, frame, pushed, popped,
                   calls, crashed>>
    /\ UNCHANGED luaVars
    /\ UNCHANGED <<pop_attempts, others>>

\* n.get(key).item() on a Nested n the caller keeps in a variable: the Item
\* the returned Nested designates; n itself stays in the caller's hands
nested_get_item(t, key_) ==
    /\ ~crashed
    /\ pc[t] = "idle"
    /\ ret[t].kind = "msg"
    /\ nested[t].live
    /\ LET r == Get(ret[t].val.m_item, nested[t].m_pitem, key_) IN
       /\ result' = [result EXCEPT ![t] =
                       [call |-> "Nested::get.item", on |-> nested[t].path,
                        arg |-> key_, outcome |-> r.outcome,
                        val |-> IF r.outcome = "nested"
                                THEN ItemAt(r.m_item, r.m_pitem)
                                ELSE NoItem]]
       /\ ret' = [ret EXCEPT ![t].val.m_item = r.m_item]
    /\ UNCHANGED <<m_queue, m_mutex, objects, pc, frame, nested, pushed, popped,
                   calls, crashed>>
    /\ UNCHANGED luaVars
    /\ UNCHANGED <<pop_attempts, others>>

\* msg.item() = v: the caller writes through the Item& that item() returns
message_assign(t, v) ==
    /\ ~crashed
    /\ pc[t] = "idle"
    /\ ret[t].kind = "msg"
    /\ ret' = [ret EXCEPT ![t].val.m_item = v]
    /\ nested' = [nested EXCEPT ![t] = NoNested]
    /\ UNCHANGED <<m_queue, m_mutex, objects, pc, frame, result, pushed, popped,
                   calls, crashed>>
    /\ UNCHANGED luaVars
    /\ UNCHANGED <<pop_attempts, others>>

----------------------------------------------------------------------------
(* The owner of an external object destroys it (delete temporary) *)

\* what the freed memory holds afterwards is not determined
destroy(a) ==
    /\ ~crashed
    /\ objects[a].alive
    /\ \E garbage \in CustomVals :
          objects' = [objects EXCEPT ![a] = [alive |-> FALSE, val |-> garbage]]
    /\ UNCHANGED <<m_queue, m_mutex, pc, frame, ret, nested, result, pushed,
                   popped, calls, crashed>>
    /\ UNCHANGED luaVars
    /\ UNCHANGED <<pop_attempts, others>>

----------------------------------------------------------------------------
(* The Lua side: bind, to_lua, and Lua code calling the global *)

\* the registerFunction calls of bind, in order
Registrations ==
    <<[name |-> "size", member |-> "size"],
      [name |-> "push", member |-> "push_lua"],
      [name |-> "pop", member |-> "pop_lua"]>>

\* a bind without the test of bound_states
bind_always_registers(q, L) ==
    /\ ~crashed
    /\ m_lua' = [m_lua EXCEPT ![q] = L]
    /\ registered' = [registered EXCEPT ![L] = @ \o Registrations]
    /\ bound_states' = bound_states \cup {L}
    /\ UNCHANGED <<m_queue, m_mutex, objects, pc, frame, ret, nested, result,
                   pushed, popped, calls, crashed, globals, destructed,
                   pop_attempts, others>>

\* a bind whose third registerFunction names &Queue::size
bind_pop_as_size(q, L) ==
    /\ ~crashed
    /\ m_lua' = [m_lua EXCEPT ![q] = L]
    /\ IF L \notin bound_states
       THEN /\ registered' = [registered EXCEPT ![L] =
                   @ \o [Registrations EXCEPT ![3].member = "size"]]
            /\ bound_states' = bound_states \cup {L}
       ELSE UNCHANGED <<registered, bound_states>>
    /\ UNCHANGED <<m_queue, m_mutex, objects, pc, frame, ret, nested, result,
                   pushed, popped, calls, crashed, globals, destructed,
                   pop_attempts, others>>

\* Queue::bind(L) of instance q:
\*   m_lua = Lua(new LuaContext(L));
\*   if (!bound_states().count(L)) { registerFunction x 3; insert(L); }
bind(q, L) ==
    /\ ~crashed
    /\ m_lua' = [m_lua EXCEPT ![q] = L]
    /\ IF L \notin bound_states
       THEN /\ registered' = [registered EXCEPT ![L] = @ \o Registrations]
            /\ bound_states' = bound_states \cup {L}
       ELSE UNCHANGED <<registered, bound_states>>
    /\ UNCHANGED <<m_queue, m_mutex, objects, pc, frame, ret, nested, result,
                   pushed, popped, calls, crashed, globals, destructed,
                   pop_attempts, others>>

\* a to_lua that writes into a process-wide default Lua state when the
\* Queue has none of its own
to_lua_default_state(q, name_) ==
    /\ ~crashed
    /\ LET L == IF m_lua[q] = NoState
                THEN CHOOSE d \in LuaStates : \A e \in LuaStates : d <= e
                ELSE m_lua[q]
       IN  globals' = [globals EXCEPT ![L][name_] = q]
    /\ UNCHANGED <<m_queue, m_mutex, objects, pc, frame, ret, nested, result,
                   pushed, popped, calls, crashed, m_lua, bound_states,
                   registered, destructed, pop_attempts, others>>

\* Queue::to_lua(name_) of instance q: m_lua->writeVariable(name_, this).
\* Before any bind m_lua is a null shared_ptr, and the call through it is
\* undefined behaviour.
to_lua(q, name_) ==
    /\ ~crashed
    /\ IF m_lua[q] = NoState
       THEN /\ crashed' = TRUE
            /\ UNCHANGED globals
       ELSE /\ globals' = [globals EXCEPT ![m_lua[q]][name_] = q]
            /\ UNCHANGED crashed
    /\ UNCHANGED <<m_queue, m_mutex, objects, pc, frame, ret, nested, result,
                   pushed, popped, calls, m_lua, bound_states, registered,
                   destructed, pop_attempts, others>>

\* ~Queue () {}: the members are destroyed; nothing is written to the Lua
\* state, and bound_states() is a static that outlives the instance
destructor(q) ==
    /\ ~crashed
    /\ q \notin destructed
    /\ destructed' = destructed \cup {q}
    /\ m_lua' = [m_lua EXCEPT ![q] = NoState]
    /\ UNCHANGED <<m_queue, m_mutex, objects, pc, frame, ret, nested, result,
                   pushed, popped, calls, crashed, bound_states, registered,
                   globals, pop_attempts, others>>

\* Lua code in state L calls a method on the global name_, which holds the
\* address of a Queue whose destructor has run: the member function works
\* on the memory of a dead object, which is undefined behaviour.  The
\* process may die; when it does not, nothing of the model changes.
lua_call_destructed(L, name_) ==
    /\ ~crashed
    /\ globals[L][name_] # NoQueue
    /\ globals[L][name_] \in destructed
    /\ registered[L] # <<>>
    /\ crashed' = TRUE
    /\ UNCHANGED <<m_queue, m_mutex, objects, pc, frame, ret, nested, result,
                   pushed, popped, calls, pop_attempts, others>>
    /\ UNCHANGED luaVars

\* the member function that the method name runs in Lua state L: the one
\* registered last under that name, "none" if there is none
LuaMember(L, method) ==
    LET regs == {i \in DOMAIN registered[L] : registered[L][i].name = method} IN
    IF regs = {} THEN "none"
    ELSE registered[L][CHOOSE i \in regs : \A j \in regs : j <= i].member

\* Lua code in state L calls name:method(v), as in
\* lua->executeCode("lqueue:push(5.4)"): the global designates the Queue
\* object and the method runs the member function registered for it.
lua_call(t, L, name_, method, v) ==
    /\ globals[L][name_] = ThisQueue
    /\ LuaMember(L, method) # "none"
    /\ LET member == LuaMember(L, method) IN
       /\ Enter(t, [op |-> CASE member = "push_lua" -> "push"
                            [] member = "pop_lua" -> "pop"
                            [] OTHER -> "size",
                    entry |-> "lua",
                    msg_ |-> IF member = "push_lua" THEN v ELSE NoItem,
                    item |-> NoItem, copied |-> {}, via |-> method])
       /\ calls' = IF member = "push_lua" THEN calls + 1 ELSE calls
       /\ UNCHANGED <<pop_attempts, others>>

----------------------------------------------------------------------------
(* Specifications *)

\* the steps of the operations, by thread t
QueueStep(t) ==
    \/ lock_guard(t)
    \/ push_copy(t)
    \/ push_append(t)
    \/ pop_check(t)
    \/ pop_front(t)
    \/ pop_dequeue(t)
    \/ size_read(t)

\* One caller (the main thread, which also runs the Lua state) pushes any
\* value through any entry point, pops on either side, and destroys external
\* objects at any moment.
Next ==
    \/ \E entry \in {"const_ref", "rvalue", "lua"}, v \in Inputs :
          calls < MaxPushes /\ call_push(MainThread, entry, v)
    \/ \E s \in CStrings : calls < MaxPushes /\ call_push_cstr(MainThread, s)
    \/ \E entry \in {"cpp", "lua"} : call_pop(MainThread, entry)
    \/ call_size(MainThread)
    \/ QueueStep(MainThread)
    \/ unlock(MainThread)
    \/ push_copy_crash(MainThread)
    \/ \E a \in Addrs : destroy(a)

Spec == Init /\ [][Next]_vars

\* the value the producer thread t pushes in the next turn of its loop
\* (test.cpp: a Map with a "type" and a "value"), different for every turn
\* and every thread
ProducerItem(t) ==
    LET i == Cardinality({n \in 1..Len(pushed) : pushed[n].thread = t}) IN
    MapItem(Entry(StrKey("type"), StrItem("X"))
            @@ Entry(StrKey("value"), NumItem(10 * i + t)))

\* Any number of threads push, pop and ask the size concurrently; the main
\* thread goes through the Lua-side entry points as well.
NextThreads ==
    \/ \E t \in Threads :
          calls < MaxThreadPushes /\ call_push(t, "rvalue", ProducerItem(t))
    \/ calls < MaxThreadPushes /\ call_push(MainThread, "lua", ProducerItem(MainThread))
    \/ \E t \in Threads : call_pop(t, "cpp")
    \/ call_pop(MainThread, "lua")
    \/ \E t \in Threads : call_size(t)
    \/ \E t \in Threads : QueueStep(t)
    \/ \E t \in Threads : unlock_discard(t)

SpecThreads == Init /\ [][NextThreads]_vars

\* the steps of thread t between the acquisition of the mutex and its return
HolderStep(t) ==
    \/ push_copy(t)
    \/ push_append(t)
    \/ pop_check(t)
    \/ pop_front(t)
    \/ pop_dequeue(t)
    \/ size_read(t)
    \/ unlock_discard(t)

\* The producer and consumer threads of the tests, each calling push, pop
\* and size of the C++ side again and again.
NextLive ==
    \/ \E t \in Threads :
          calls < MaxLivePushes /\ call_push(t, "rvalue", ProducerItem(t))
    \/ \E t \in Threads : call_pop(t, "cpp")
    \/ \E t \in Threads : call_size(t)
    \/ \E t \in Threads : QueueStep(t)
    \/ \E t \in Threads : unlock_discard(t)

\* Scheduling: a thread that holds the mutex keeps running, and a thread
\* blocked in std::mutex::lock gets the mutex when it is free again and
\* again.
SpecLive ==
    /\ Init
    /\ [][NextLive]_vars
    /\ \A t \in Threads : WF_vars(HolderStep(t))
    /\ \A t \in Threads : SF_vars(lock_guard(t))

\* The producers and consumers of the multithreaded test: every thread may
\* push and ask the size, the consumers' loops make a bounded number of pop
\* calls, and the main thread also runs the loop of the Lua side.
NextWorkers ==
    \/ \E t \in Threads :
          calls < MaxLivePushes /\ call_push(t, "rvalue", ProducerItem(t))
    \/ calls < MaxLivePushes /\ call_push(MainThread, "lua", ProducerItem(MainThread))
    \/ \E t \in Threads :
          pop_attempts < MaxPopAttempts /\ worker_pop(t, "cpp")
    \/ pop_attempts < MaxPopAttempts /\ worker_pop(MainThread, "lua")
    \/ \E t \in Threads : call_size(t)
    \/ \E t \in Threads : QueueStep(t)
    \/ \E t \in Threads : unlock_discard(t)

SpecWorkers == Init /\ [][NextWorkers]_vars

\* The consumer holds a Message, one it popped or one it built with
\* Msg msg(item), and calls as<T>() and get(key) on it and on the Nested
\* objects it gets.
InitNav ==
    /\ m_queue = <<>>
    /\ m_mutex = NoThread
    /\ objects = [a \in Addrs |-> [alive |-> TRUE, val |-> LiveVal]]
    /\ pc = [t \in Threads |-> "idle"]
    /\ frame = [t \in Threads |-> NoFrame]
    /\ \E v \in Inputs, copied \in BOOLEAN :
          ret = [t \in Threads |->
                    IF t = MainThread
                    THEN [kind |-> "msg",
                          val |-> Message(IF copied THEN CopyVisitor(v, FALSE) ELSE v)]
                    ELSE NoRet]
    /\ nested = [t \in Threads |-> NoNested]
    /\ result = [t \in Threads |-> NoResult]
    /\ pushed = <<>>
    /\ popped = <<>>
    /\ calls = 0
    /\ crashed = FALSE
    /\ m_lua = [q \in Queues |-> NoState]
    /\ bound_states = {}
    /\ registered = [L \in LuaStates |-> <<>>]
    /\ globals = [L \in LuaStates |-> [name \in Names |-> NoQueue]]
    /\ destructed = {}
    /\ pop_attempts = 0
    /\ others = [q \in OtherQueues |-> NoOther]

NextNav ==
    \/ \E T \in ItemTags : message_as(MainThread, T)
    \/ \E key_ \in Keys : message_get(MainThread, key_)
    \/ \E T \in ItemTags : nested_as(MainThread, T)
    \/ \E key_ \in Keys : nested_get(MainThread, key_)
    \/ \E key_ \in Keys : nested_get_item(MainThread, key_)

SpecNav == InitNav /\ [][NextNav]_vars

\* Queue instances of one type are bound to Lua states and exposed under a
\* global name, in any order and any number of times (the tests construct
\* one Queue<double>(L, "lqueue") after the other on the same L).
NextBind ==
    \/ \E q \in Queues, L \in LuaStates : bind(q, L)
    \/ \E q \in Queues, name_ \in Names : to_lua(q, name_)

SpecBind == Init /\ [][NextBind]_vars

\* Queue instances are bound and exposed while they live, go out of scope
\* at the end of their block (the tests construct each Queue as a local of
\* a scenario, on the one global lua_State), and Lua code goes on using
\* the globals of its state.
NextLife ==
    \/ \E q \in Queues \ destructed, L \in LuaStates : bind(q, L)
    \/ \E q \in Queues \ destructed, name_ \in Names : to_lua(q, name_)
    \/ \E q \in Queues : destructor(q)
    \/ \E L \in LuaStates, name_ \in Names : lua_call_destructed(L, name_)

SpecLife == Init /\ [][NextLife]_vars

\* the lua_State all the Queues of the tests are bound to (extern L)
SharedState == CHOOSE L \in LuaStates : \A M \in LuaStates : L <= M

\* the threads that work on the other instances
OtherThreads == Threads \ {MainThread}

\* every instance was constructed with Queue(L), as in the tests
AllBound == \A q \in Queues : m_lua[q] = SharedState

\* Several Queue instances of one type, constructed on the same Lua state,
\* are used at the same time: the main thread calls push, pop and size on
\* ThisQueue while the other threads call them on the other instances.
NextTwo ==
    \/ \E q \in Queues : bind(q, SharedState)
    \/ AllBound /\ calls < MaxPushes
                /\ call_push(MainThread, "rvalue", NumItem(31))
    \/ AllBound /\ call_pop(MainThread, "cpp")
    \/ AllBound /\ call_size(MainThread)
    \/ QueueStep(MainThread)
    \/ unlock_discard(MainThread)
    \/ \E q \in OtherQueues, t \in OtherThreads :
          /\ AllBound
          /\ Len(others[q].m_queue) < MaxPushes
          /\ other_call(q, t, "push", "rvalue", StrItem("X"))
    \/ \E q \in OtherQueues, t \in OtherThreads, op \in {"pop", "size"} :
          AllBound /\ other_call(q, t, op, "cpp", NoItem)
    \/ \E q \in OtherQueues, t \in OtherThreads : other_lock_guard(q, t)
    \/ \E q \in OtherQueues, t \in OtherThreads : other_body(q, t)
    \/ \E q \in OtherQueues, t \in OtherThreads : other_return(q, t)

SpecTwo == Init /\ [][NextTwo]_vars

\* the values exchanged between C++ and Lua in the tests
LuaInputs == {NumItem(31), StrItem("X"), ExampleMap}

\* One Queue, bound and exposed to Lua, used from C++ and from Lua code by
\* the thread that runs the Lua state.
NextLua ==
    \/ \E L \in LuaStates : bind(ThisQueue, L)
    \/ to_lua(ThisQueue, "lqueue")
    \/ \E L \in LuaStates, v \in LuaInputs :
          calls < MaxPushes /\ lua_call(MainThread, L, "lqueue", "push", v)
    \/ \E L \in LuaStates, method \in {"pop", "size"} :
          lua_call(MainThread, L, "lqueue", method, NoItem)
    \/ \E v \in LuaInputs : calls < MaxPushes /\ call_push(MainThread, "rvalue", v)
    \/ call_pop(MainThread, "cpp")
    \/ call_size(MainThread)
    \/ QueueStep(MainThread)
    \/ unlock(MainThread)

SpecLua == Init /\ [][NextLua]_vars

\* the values of every kind the producer of the tests pushes
UseInputs == {BoolItem(TRUE), CustomItem(5), CopyPtrItem(temporary), ExampleMap}

\* One caller pushes values, pops them and reads the popped Message with
\* as<T>() and get(key).
NextUse ==
    \/ \E entry \in {"const_ref", "rvalue", "lua"}, v \in UseInputs :
          calls < MaxPushes /\ call_push(MainThread, entry, v)
    \/ \E s \in CStrings : calls < MaxPushes /\ call_push_cstr(MainThread, s)
    \/ call_pop(MainThread, "cpp")
    \/ call_size(MainThread)
    \/ QueueStep(MainThread)
    \/ unlock(MainThread)
    \/ \E T \in ItemTags : message_as(MainThread, T)
    \/ \E key_ \in Keys : message_get(MainThread, key_)
    \/ \E T \in ItemTags : nested_as(MainThread, T)
    \/ \E key_ \in Keys : nested_get(MainThread, key_)

SpecUse == Init /\ [][NextUse]_vars

\* the values pushed that hold, or do not hold, the pointer to temporary
AliasInputs ==
    {CopyPtrItem(temporary), UnsafeMap, CustomItem(5), ExampleMap,
     MapItem(Entry(StrKey("temp"), CopyPtrItem(temporary)))}

\* The scenario of the tests: values are pushed while the external object is
\* alive, the object is deleted once a push has returned, and the entries
\* are popped; the consumer may overwrite the Message it popped.
NextAlias ==
    \/ \E entry \in {"const_ref", "rvalue", "lua"}, v \in AliasInputs :
          /\ calls < MaxPushes
          /\ \A a \in Addrs : objects[a].alive
          /\ call_push(MainThread, entry, v)
    \/ \E entry \in {"cpp", "lua"} : call_pop(MainThread, entry)
    \/ call_size(MainThread)
    \/ QueueStep(MainThread)
    \/ unlock(MainThread)
    \/ \E a \in Addrs :
          pc[MainThread] = "idle" /\ Len(pushed) >= 1 /\ destroy(a)
    \/ message_assign(MainThread, NumItem(31))

SpecAlias == Init /\ [][NextAlias]_vars

\* the pushes that ended with an exception
Failures ==
    calls - Len(pushed)
          - Cardinality({t \in Threads : /\ frame[t].op = "push"
                                         /\ pc[t] \in {"lock", "body", "append"}})

\* the values pushed where the copy constructor may fail
ThrowInputs == {NumItem(31), CopyPtrItem(temporary), UnsafeMap}

\* One caller pushes values with payloads; the copy of a payload may throw.
NextThrow ==
    \/ \E entry \in {"const_ref", "rvalue", "lua"}, v \in ThrowInputs :
          calls < MaxPushes + MaxFailures /\ call_push(MainThread, entry, v)
    \/ \E entry \in {"cpp", "lua"} : call_pop(MainThread, entry)
    \/ call_size(MainThread)
    \/ QueueStep(MainThread)
    \/ Failures < MaxFailures /\ push_copy_throw(MainThread)
    \/ unlock(MainThread)

SpecThrow == Init /\ [][NextThrow]_vars

TypeOK ==
    /\ m_mutex \in Threads \cup {NoThread}
    /\ crashed \in BOOLEAN
    /\ calls \in 0..(MaxPushes + MaxThreadPushes + MaxFailures + MaxLivePushes)
    /\ Len(m_queue) <= calls

----------------------------------------------------------------------------
(* Properties of the queue under concurrent use (SpecThreads) *)

\* thread t is inside the body of size, push, pop, push_lua or pop_lua
InBody(t) == pc[t] \in {"body", "append", "front", "dequeue", "unlock"}

AllReturned == ~crashed /\ \A t \in Threads : pc[t] = "idle"

\* C1: strict FIFO.  The Items handed out by the successful pops are, in
\* order, the first entries of the sequence of Items the pushes stored,
\* taken in the order in which the pushes held the lock.
C1_FIFO ==
    /\ Len(popped) <= Len(pushed)
    /\ \A i \in 1..Len(popped) : popped[i] = pushed[i].stored

\* three different values pushed by more than one thread, and three pops
\* done
C1_Witness ==
    /\ Len(popped) = 3
    /\ \E i, j \in 1..3 : pushed[i].thread # pushed[j].thread
    /\ pushed[1].stored # pushed[2].stored
    /\ pushed[2].stored # pushed[3].stored

\* C4: mutual exclusion.  At most one thread is inside the body of an
\* operation, that thread holds the mutex, and every change of the internal
\* sequence is a step of the thread that holds the mutex.
C4_MutualExclusion ==
    /\ [](\A t \in Threads : InBody(t) => m_mutex = t)
    /\ [](\A t1, t2 \in Threads : InBody(t1) /\ InBody(t2) => t1 = t2)
    /\ [][m_queue' # m_queue =>
              \E t \in Threads : m_mutex = t /\ InBody(t) /\ pc'[t] # pc[t]]_vars

\* one thread is in the body of size() while another, inside pop(), is
\* blocked on the mutex, with entries in the queue
C4_Witness ==
    \E t1, t2 \in Threads :
        /\ InBody(t1) /\ frame[t1].op = "size" /\ pc[t1] = "body"
        /\ pc[t2] = "lock" /\ frame[t2].op = "pop"
        /\ m_queue # <<>>

\* C5: conservation.  Once every thread has returned, the successful pops
\* plus the entries left add up to the pushes made, every popped Item is one
\* that was pushed, and no pushed Item came out of two pops.
C5_Conservation ==
    AllReturned =>
        /\ Len(popped) + Len(m_queue) = calls
        /\ \A i \in 1..Len(popped) :
              \E j \in 1..Len(pushed) : popped[i] = pushed[j].orig
        /\ \A i, j \in 1..Len(popped) :
              popped[i] = popped[j] => i = j

\* both threads have pushed, two pops succeeded, one entry is left and
\* everybody has returned
C5_Witness ==
    /\ AllReturned
    /\ calls = 3
    /\ Len(popped) = 2
    /\ Len(m_queue) = 1
    /\ \E i, j \in 1..Len(pushed) : pushed[i].thread # pushed[j].thread

----------------------------------------------------------------------------
(* Properties of transfer (Spec, one caller) and navigation (SpecNav) *)

RECURSIVE Stored(_, _)
\* the Item found in the tree root by following the keys of path, NoItem
\* if the path leaves the tree
Stored(root, path) ==
    IF path = <<>> THEN root
    ELSE IF root.tag = "Map" /\ Head(path) \in DOMAIN root.val
    THEN Stored(root.val[Head(path)], Tail(path))
    ELSE NoItem

\* With one caller the Message in hand is the last Item popped, and by FIFO
\* the push it comes from is the push of the same rank.
HasMessage == ret[MainThread].kind = "msg"
TheMessage == ret[MainThread].val.m_item
ItsPush == pushed[Len(popped)]

\* the push the k-th entry of the queue comes from
PushOfEntry(k) == pushed[Len(pushed) - Len(m_queue) + k]

\* C2: a CopyPtr<T>* at the root is stored as an owned T.  An entry of the
\* queue that was pushed as a root CopyPtr holds variant CustomType and no
\* pointer, and as<CustomType>() succeeds on the Message popped from it,
\* whatever became of the object pointed to.
C2_RootPointerCopied ==
    /\ \A k \in 1..Len(m_queue) :
          PushOfEntry(k).orig.tag = "CopyPtr" =>
              m_queue[k].tag = "CustomType" /\ ~HasCopyPtr(m_queue[k])
    /\ (HasMessage /\ ItsPush.orig.tag = "CopyPtr") =>
          /\ TheMessage.tag = "CustomType"
          /\ As(TheMessage, <<>>, "CustomType").outcome = "value"

\* the object was alive during the push and destroyed afterwards, its memory
\* was overwritten, and the popped Message holds the copy
C2_Witness ==
    /\ HasMessage
    /\ ItsPush.orig.tag = "CopyPtr"
    /\ ~objects[ItsPush.orig.val].alive
    /\ objects[ItsPush.orig.val].val # LiveVal
    /\ As(TheMessage, <<>>, "CustomType").val = CustomItem(LiveVal)

\* C3: for every push entry point and a Map nested to any depth, no node of
\* the stored entry is a CopyPtr<T>*.
C3_NoPointerStored ==
    \A k \in 1..Len(m_queue) : ~HasCopyPtr(m_queue[k])

\* what does hold: the entries stored by push(Item&&) and push_lua, and the
\* entries whose pushed value was not a Map, hold no pointer
C3_NoPointerStoredUnlessConstMap ==
    \A k \in 1..Len(m_queue) :
        (PushOfEntry(k).entry # "const_ref" \/ PushOfEntry(k).orig.tag # "Map")
            => ~HasCopyPtr(m_queue[k])

\* C6: pop on an empty queue.  pop() and pop_lua() that find no entry return
\* "no value" and leave the queue as it is, and size() on the empty queue
\* reports 0.
C6_EmptyPop ==
    [][\A t \in Threads :
          (pc[t] = "body" /\ m_queue = <<>> /\ pc'[t] # pc[t]) =>
              /\ frame[t].op = "pop" =>
                    /\ ret'[t] = [kind |-> "none", val |-> NoItem]
                    /\ pc'[t] = "unlock"
                    /\ m_queue' = <<>>
              /\ frame[t].op = "size" =>
                    ret'[t] = [kind |-> "size", val |-> Unsigned(0)]]_vars

\* a pop on the drained queue has returned "no value"
C6_Witness ==
    /\ pc[MainThread] = "idle"
    /\ ret[MainThread].kind = "none"
    /\ Len(pushed) >= 1
    /\ Len(popped) = Len(pushed)
    /\ m_queue = <<>>

\* C7: round trip.  The Message popped from the push of a Boolean, Number,
\* String or Map of such values holds the same tag and an equal value.
C7_RoundTrip ==
    (HasMessage /\ Primitive(ItsPush.orig)) => TheMessage = ItsPush.orig

\* the Map of the specification's example came back
C7_Witness ==
    /\ HasMessage
    /\ ItsPush.orig = ExampleMap
    /\ TheMessage = ExampleMap

\* the Item an as/get of the caller was made on
Held == Stored(TheMessage, result[MainThread].on)

\* C8: type mismatch.  as<B>() on a Message or Nested whose Item holds
\* variant A fails with TypeMismatch when B differs from A and returns no
\* value; as<A>() returns the payload.
C8_TypeMismatch ==
    (HasMessage /\ result[MainThread].call \in {"Message::as", "Nested::as"}) =>
        IF result[MainThread].arg.val = Held.tag
        THEN /\ result[MainThread].outcome = "value"
             /\ result[MainThread].val = Held
        ELSE /\ result[MainThread].outcome = "TypeMismatch"
             /\ result[MainThread].val = NoItem

\* a Boolean inside a Map was asked for as a Number
C8_Witness ==
    /\ HasMessage
    /\ result[MainThread].call = "Nested::as"
    /\ Held.tag = "Bool"
    /\ result[MainThread].arg = TypeArg("Num")
    /\ result[MainThread].outcome = "TypeMismatch"

\* C9: get(key).  TypeMismatch whenever the Item is not a Map, whatever the
\* key; KeyNotFound when it is a Map without the key; otherwise a Nested
\* over the child stored at the key.
C9_Get ==
    (HasMessage /\ result[MainThread].call \in {"Message::get", "Nested::get"}) =>
        IF Held.tag # "Map"
        THEN result[MainThread].outcome = "TypeMismatch"
        ELSE IF result[MainThread].arg \notin DOMAIN Held.val
        THEN result[MainThread].outcome = "KeyNotFound"
        ELSE /\ result[MainThread].outcome = "nested"
             /\ nested[MainThread].live
             /\ Stored(TheMessage, nested[MainThread].m_pitem)
                    = Held.val[result[MainThread].arg]

\* get on a Nested over a leaf failed with TypeMismatch
C9_Witness ==
    /\ HasMessage
    /\ result[MainThread].call = "Nested::get"
    /\ Held.tag \in {"Bool", "Num", "Str", "CustomType"}
    /\ result[MainThread].outcome = "TypeMismatch"

\* C10: nested navigation.  After get(k1)...get(kn) for keys that exist, the
\* path is in the tree and as<T>() for the type stored there returns exactly
\* the Item stored at that path, for string and integer keys alike; on the
\* example Map, get("type") leads to "X", get("nested").get("flag") to true
\* and get(7) to 3.1.
C10_Navigation ==
    (HasMessage /\ result[MainThread].call = "Nested::as") =>
        /\ Held # NoItem
        /\ result[MainThread].arg.val = Held.tag =>
              /\ result[MainThread].outcome = "value"
              /\ result[MainThread].val = Held
        /\ (TheMessage = ExampleMap /\ result[MainThread].outcome = "value") =>
              /\ result[MainThread].on = <<StrKey("type")>>
                    => result[MainThread].val = StrItem("X")
              /\ result[MainThread].on = <<StrKey("nested"), StrKey("flag")>>
                    => result[MainThread].val = BoolItem(TRUE)
              /\ result[MainThread].on = <<IntKey(7)>>
                    => result[MainThread].val = NumItem(31)

\* get("nested").get("flag").as<Bool>() gave true on the example Map
C10_Witness ==
    /\ HasMessage
    /\ TheMessage = ExampleMap
    /\ result[MainThread].call = "Nested::as"
    /\ result[MainThread].on = <<StrKey("nested"), StrKey("flag")>>
    /\ result[MainThread].outcome = "value"
    /\ result[MainThread].val = BoolItem(TRUE)

\* C11: navigation is read-only.  No as<T>() or get(key), on the Message or
\* on a Nested, successful or failed, changes the tree of the Message (a
\* missing key is not inserted), and the same call repeated on the same
\* accessor gives the same result.
C11_ReadOnly ==
    [][/\ ret' = ret
       /\ (/\ result[MainThread].call # "none"
           /\ result'[MainThread].call = result[MainThread].call
           /\ result'[MainThread].on = result[MainThread].on
           /\ result'[MainThread].arg = result[MainThread].arg)
             => result'[MainThread] = result[MainThread]]_vars

\* get of a missing key on a kept Nested of the example Map failed with
\* KeyNotFound, and the Message still holds the example Map
C11_Witness ==
    /\ HasMessage
    /\ TheMessage = ExampleMap
    /\ nested[MainThread].live
    /\ nested[MainThread].path = <<StrKey("nested")>>
    /\ result[MainThread].call = "Nested::get.item"
    /\ result[MainThread].arg = StrKey("type")
    /\ result[MainThread].outcome = "KeyNotFound"

\* C14: pop detaches the front entry by moving it.  While pop() or pop_lua()
\* builds the value it returns, no CustomType payload of the entry is
\* copy-constructed.
C14_PopMoves ==
    \A t \in Threads : frame[t].op = "pop" => frame[t].copied = {}

\* what does hold: pop_lua copies nothing, and pop() copies exactly the
\* payloads of the front entry
C14_PopLuaMoves ==
    \A t \in Threads :
        (frame[t].op = "pop" /\ pc[t] \in {"dequeue", "unlock"}
            /\ ret[t].kind # "none") =>
            frame[t].copied = IF frame[t].entry = "lua" THEN {}
                              ELSE CustomPaths(frame[t].item)

\* the entries of the pushes that completed and were not popped yet
Unpopped == [k \in 1..(Len(pushed) - Len(popped)) |-> pushed[Len(popped) + k].stored]

\* C12: push is atomic when a copy fails.  A push that ends with the
\* exception of a payload's copy constructor, whatever was copied before,
\* leaves the sequence as it was before the call and the mutex free; at all
\* times the queue holds exactly the entries of the completed pushes not
\* yet popped, and the calls that follow return the size and the entries
\* of that sequence.
C12_PushAtomic ==
    /\ m_queue = Unpopped
    /\ \A t \in Threads : pc[t] = "idle" => m_mutex # t
    /\ \A t \in Threads :
          (pc[t] = "idle" /\ ret[t].kind = "size") => ret[t].val = Unsigned(Len(Unpopped))
    /\ \A i \in 1..Len(popped) : popped[i] = pushed[i].stored
    /\ Failures \in 0..MaxFailures

\* a push failed and has returned, after an earlier push had stored an
\* entry: the entry is still the only one and the mutex is free
C12_Witness ==
    /\ pc[MainThread] = "idle"
    /\ ret[MainThread].kind = "exception"
    /\ Failures = 1
    /\ Len(pushed) = 1
    /\ m_queue = <<pushed[1].stored>>
    /\ m_mutex = NoThread

C15_SizeAccounting ==
    /\ [](Len(m_queue) = Len(pushed) - Len(popped))
    /\ [](\A t \in Threads :
            (pc[t] = "unlock" /\ ret[t].kind = "size") =>
                ret[t].val = Unsigned(Len(pushed) - Len(popped)))
    /\ [][/\ Len(pushed') = Len(pushed) + 1 => Len(m_queue') = Len(m_queue) + 1
          /\ Len(popped') = Len(popped) + 1 => Len(m_queue') = Len(m_queue) - 1
          /\ (pushed' = pushed /\ popped' = popped) => m_queue' = m_queue
          /\ \A t \in Threads :
                (frame[t].op = "size" \/ ret'[t].kind = "none") /\ pc'[t] # pc[t]
                    => m_queue' = m_queue]_vars

\* size() is about to return 2 after three pushes and one pop
C15_Witness ==
    \E t \in Threads :
        /\ pc[t] = "unlock"
        /\ ret[t] = [kind |-> "size", val |-> Unsigned(2)]
        /\ Len(pushed) = 3
        /\ Len(popped) = 1

----------------------------------------------------------------------------
(* Properties of the binding to Lua (SpecBind, SpecLua) *)

\* C16: binding is idempotent per Lua state.  Whatever Queue instances bind
\* in whatever order, a Lua state has received either no registration or
\* size, push and pop exactly once each, from the first bind to it, and a
\* bind to a state that is already bound registers nothing.
C16_BindOnce ==
    /\ [](\A L \in LuaStates :
            /\ registered[L] \in {<<>>, Registrations}
            /\ registered[L] # <<>> <=> L \in bound_states
            /\ (\E q \in Queues : m_lua[q] = L) => registered[L] = Registrations)
    /\ [][\A L \in LuaStates :
            registered[L] # <<>> => registered'[L] = registered[L]]_vars

\* two Queue instances are bound to the same Lua state, which holds the
\* three registrations once
C16_Witness ==
    \E L \in LuaStates, q1, q2 \in Queues :
        /\ q1 # q2
        /\ m_lua[q1] = L
        /\ m_lua[q2] = L
        /\ Len(registered[L]) = 3

\* C17: one FIFO for both sides.  Once the Queue is exposed as a global,
\* the methods size, push and pop called on the global from Lua run the
\* operations size, push and pop of that Queue object; a value pushed from
\* Lua is what the next pop of the C++ side returns and a value pushed from
\* C++ is what the next pop from Lua returns; and size, on either side,
\* returns the length of the one sequence.
C17_OneFifo ==
    /\ \A t \in Threads :
          /\ frame[t].via = "push" => frame[t].op = "push" /\ frame[t].entry = "lua"
          /\ frame[t].via = "pop" => frame[t].op = "pop" /\ frame[t].entry = "lua"
          /\ frame[t].via = "size" => frame[t].op = "size"
    /\ (HasMessage /\ ItsPush.entry = "lua") => TheMessage = ItsPush.orig
    /\ (ret[MainThread].kind = "item" /\ ItsPush.entry # "lua") =>
          ret[MainThread].val = ItsPush.orig
    /\ (pc[MainThread] = "idle" /\ ret[MainThread].kind = "size") =>
          ret[MainThread].val = Unsigned(Len(m_queue))
    /\ \A i \in 1..Len(popped) : popped[i] = pushed[i].stored

\* the table pushed from C++ came out of lqueue:pop() in Lua
C17_Witness ==
    /\ pc[MainThread] = "idle"
    /\ ret[MainThread].kind = "item"
    /\ ret[MainThread].val = ExampleMap
    /\ ItsPush.entry = "rvalue"
    /\ \E L \in LuaStates : globals[L]["lqueue"] = ThisQueue

----------------------------------------------------------------------------
(* Properties of the use of popped Messages (SpecUse) *)

\* C18: push and pop raise no domain error.  Whatever the content of the
\* value, push returns normally with the value stored and pop returns
\* nothing or the stored entry, intact; TypeMismatch and KeyNotFound come
\* only out of as<T>() and get(key) called on a popped Message.
C18_NoDomainError ==
    /\ \A t \in Threads :
          /\ ret[t].kind \in {"nothing", "void", "none", "size", "msg", "item"}
          /\ (frame[t].op = "push" /\ pc[t] = "unlock") =>
                /\ ret[t].kind = "void"
                /\ m_queue # <<>>
                /\ pushed[Len(pushed)].orig = frame[t].msg_
                /\ m_queue[Len(m_queue)] = pushed[Len(pushed)].stored
          /\ result[t].outcome \in {"TypeMismatch", "KeyNotFound"} =>
                /\ ret[t].kind = "msg"
                /\ result[t].call \in {"Message::as", "Message::get",
                                       "Nested::as", "Nested::get"}
    /\ HasMessage =>
          /\ TheMessage = ItsPush.stored
          /\ ~HasCopyPtr(ItsPush.orig) => TheMessage = ItsPush.orig
    /\ Len(m_queue) + Len(popped) = Len(pushed)

\* a Boolean was pushed and popped without error, and the mismatch showed
\* when the consumer asked for a Number
C18_Witness ==
    /\ HasMessage
    /\ ItsPush.orig = BoolItem(TRUE)
    /\ TheMessage = BoolItem(TRUE)
    /\ result[MainThread].call = "Message::as"
    /\ result[MainThread].arg = TypeArg("Num")
    /\ result[MainThread].outcome = "TypeMismatch"

----------------------------------------------------------------------------
(* Properties of ownership after a push (SpecAlias) *)

RECURSIVE Content(_)
\* what a reader of the tree finds now: a pointer leads to the memory of
\* the external object as it is at present
Content(item) ==
    IF item.tag = "CopyPtr" THEN CustomItem(objects[item.val].val)
    ELSE IF item.tag = "Map"
    THEN MapItem([k \in DOMAIN item.val |-> Content(item.val[k])])
    ELSE item

RECURSIVE Snapshot(_)
\* the content the value had when it was pushed: every external object was
\* alive then and held LiveVal
Snapshot(item) ==
    IF item.tag = "CopyPtr" THEN CustomItem(LiveVal)
    ELSE IF item.tag = "Map"
    THEN MapItem([k \in DOMAIN item.val |-> Snapshot(item.val[k])])
    ELSE item

\* C19: no aliasing after push.  Once a push has returned, what the caller
\* does to its own value and objects, and what the consumer writes into a
\* popped Message, changes neither the entries in the queue nor the entries
\* popped: their content stays the content of the pushed value at the time
\* of the push.
C19_NoAliasing ==
    /\ \A k \in 1..Len(m_queue) :
          Content(m_queue[k]) = Snapshot(PushOfEntry(k).orig)
    /\ \A i \in 1..Len(popped) :
          Content(popped[i]) = Snapshot(pushed[i].orig)

\* C20: copy on transfer.  When the pushed value holds a pointer to an
\* external object, at the root or inside a Map, the value popped holds no
\* pointer to that object but an object of its own, equal to the external
\* object as it was at the time of the push, whatever happened to the
\* external object since.
C20_Snapshot ==
    \A i \in 1..Len(popped) :
        HasCopyPtr(pushed[i].orig) =>
            /\ ~HasCopyPtr(popped[i])
            /\ popped[i] = Snapshot(pushed[i].orig)

----------------------------------------------------------------------------
(* Properties of the workers' loops (SpecWorkers) *)

\* C21: size under concurrent producers and consumers.  Every value size()
\* returns lies between 0 and the number of pushes made so far, and once
\* all threads have finished, if fewer pop calls than pushes were made, the
\* queue holds at least pushes minus pop calls entries.
C21_SizeBounds ==
    /\ \A t \in Threads :
          (pc[t] = "unlock" /\ ret[t].kind = "size") =>
              /\ ret[t].val.tag = "unsigned"
              /\ ret[t].val.val \in 0..Len(pushed)
    /\ (AllReturned /\ pop_attempts < calls) =>
          Len(m_queue) >= calls - pop_attempts

\* all threads have finished after two pushes by different threads and one
\* pop call, which found the queue empty: both entries are left
C21_Witness ==
    /\ AllReturned
    /\ calls = 2
    /\ pop_attempts = 1
    /\ popped = <<>>
    /\ Len(m_queue) = 2
    /\ pushed[1].thread # pushed[2].thread

----------------------------------------------------------------------------
(* Further properties of transfer (Spec) *)

RECURSIVE Preserved(_, _)
\* stored is the tree orig but for the nodes that are CopyPtr<T>* in orig:
\* the same keys in every Map, and the same tag and value at every other
\* node
Preserved(orig, stored) ==
    IF orig.tag = "CopyPtr" THEN TRUE
    ELSE IF orig.tag = "Map"
    THEN /\ stored.tag = "Map"
         /\ DOMAIN stored.val = DOMAIN orig.val
         /\ \A k \in DOMAIN orig.val : Preserved(orig.val[k], stored.val[k])
    ELSE stored = orig

\* C22: the copier changes only CopyPtr nodes.  For every pushed value the
\* entry stored in the queue has the same Map key set at every level as the
\* input, and every Boolean, Number, String and owned CustomType node is
\* stored with the same tag and an equal value at the same path.
C22_OnlyPointersChange ==
    /\ \A i \in 1..Len(pushed) : Preserved(pushed[i].orig, pushed[i].stored)
    /\ \A k \in 1..Len(m_queue) : Preserved(PushOfEntry(k).orig, m_queue[k])

\* the Map with two pointers and an owned CustomType under an integer key
\* was pushed by rvalue: the pointers were replaced, the rest is as it was
C22_Witness ==
    /\ Len(m_queue) = 1
    /\ PushOfEntry(1).entry = "rvalue"
    /\ PushOfEntry(1).orig \in UnsafeMaps
    /\ m_queue[1] # PushOfEntry(1).orig
    /\ m_queue[1].val[IntKey(7)] = CustomItem(5)
    /\ m_queue[1].val[StrKey("nested")].val[StrKey("temp")].tag = "CustomType"

----------------------------------------------------------------------------
(* Further properties of navigation (SpecNav) *)

C24_KeysByType ==
    (HasMessage /\ result[MainThread].call \in {"Message::get", "Nested::get"}
        /\ Held.tag = "Map") =>
        LET key_ == result[MainThread].arg IN
        /\ result[MainThread].outcome = "nested" <=> key_ \in DOMAIN Held.val
        /\ result[MainThread].outcome # "nested" =>
              result[MainThread].outcome = "KeyNotFound"
        /\ result[MainThread].outcome = "nested" =>
              Stored(TheMessage, nested[MainThread].m_pitem) = Held.val[key_]
        /\ (Held = MixedKeyMap /\ key_ = IntKey(7)) =>
              Stored(TheMessage, nested[MainThread].m_pitem) = NumItem(31)
        /\ (Held = MixedKeyMap /\ key_ = StrKey("7")) =>
              Stored(TheMessage, nested[MainThread].m_pitem) = StrItem("X")
        /\ (Held = ExampleMap /\ key_ = StrKey("7")) =>
              result[MainThread].outcome = "KeyNotFound"

\* get("7") failed on the example Map, whose key 7 is an Integer
C24_Witness ==
    /\ HasMessage
    /\ TheMessage = ExampleMap
    /\ IntKey(7) \in DOMAIN TheMessage.val
    /\ result[MainThread].call = "Message::get"
    /\ result[MainThread].arg = StrKey("7")
    /\ result[MainThread].outcome = "KeyNotFound"

----------------------------------------------------------------------------
(* Properties of the lock (SpecLua, SpecThrow, SpecThreads) *)

\* C25: the lock is never requested by the thread that holds it.  No thread
\* waits for the mutex while it is the holder; a thread inside the critical
\* section of size, push, pop, push_lua or pop_lua does not go on to
\* request the mutex; and a single caller is never blocked: whenever it is
\* inside an operation its next step can be taken.
C25_NoRelock ==
    /\ [](\A t \in Threads : pc[t] = "lock" => m_mutex # t)
    /\ [][\A t \in Threads : InBody(t) => pc'[t] # "lock"]_vars
    /\ []((pc[MainThread] # "idle" /\ ~crashed) =>
              ENABLED (QueueStep(MainThread) \/ unlock(MainThread)))

\* pop_lua, called from Lua, has read the length through size_unsafe and
\* goes on with the mutex held
C25_Witness ==
    /\ pc[MainThread] = "front"
    /\ frame[MainThread].op = "pop"
    /\ frame[MainThread].via = "pop"
    /\ m_mutex = MainThread

\* C26: the lock is released on every exit path.  A thread holds the mutex
\* only while it is inside the body of an operation: after size, push, pop,
\* push_lua or pop_lua has returned, be it with a value, with "no value"
\* from the empty queue or with an exception, the caller does not hold the
\* mutex, and when no operation is in progress the mutex is free.
C26_LockReleased ==
    /\ \A t \in Threads : m_mutex = t => InBody(t)
    /\ \A t \in Threads :
          (pc[t] = "idle" /\ ret[t].kind \in {"void", "none", "size", "msg",
                                              "item", "exception"})
              => m_mutex # t
    /\ (\A t \in Threads : pc[t] = "idle") => m_mutex = NoThread

\* after a push that left by exception, a pop has returned "no value" from
\* the empty queue, and the mutex is free
C26_Witness ==
    /\ pc[MainThread] = "idle"
    /\ ret[MainThread].kind = "none"
    /\ Failures = 1
    /\ m_queue = <<>>
    /\ m_mutex = NoThread

----------------------------------------------------------------------------
(* Properties of the lifecycle of the binding (SpecLua, SpecBind) *)

\* C27: to_lua needs bind first.  A global designates a Queue only if that
\* Queue has been bound; to_lua on a Queue that was never bound has no Lua
\* state to write to and is an error state, and it is the only way into
\* the error state; to_lua on a bound Queue writes the global without
\* error; and push, pop and size work on the Queue that was never bound.
C27_BindBeforeToLua ==
    /\ [](\A L \in LuaStates, name_ \in Names :
            globals[L][name_] # NoQueue => m_lua[globals[L][name_]] # NoState)
    /\ [][(crashed' /\ ~crashed) =>
              (m_lua[ThisQueue] = NoState /\ globals' = globals)]_vars
    /\ [][globals' # globals => (m_lua[ThisQueue] # NoState /\ ~crashed')]_vars
    /\ []((m_lua[ThisQueue] = NoState /\ ~crashed) =>
              /\ ENABLED (to_lua(ThisQueue, "lqueue") /\ crashed')
              /\ ~ENABLED (to_lua(ThisQueue, "lqueue") /\ ~crashed')
              /\ pc[MainThread] # "idle" =>
                    ENABLED (QueueStep(MainThread) \/ unlock(MainThread))
              /\ pc[MainThread] = "idle" =>
                    /\ ENABLED call_pop(MainThread, "cpp")
                    /\ ENABLED call_size(MainThread)
              /\ Len(m_queue) = Len(pushed) - Len(popped)
              /\ \A i \in 1..Len(popped) : popped[i] = pushed[i].stored)

\* the Queue that was never bound has pushed and popped a value, and the
\* call of to_lua on it ended in the error state
C27_Witness ==
    /\ crashed
    /\ m_lua[ThisQueue] = NoState
    /\ Len(pushed) = 1
    /\ Len(popped) = 1
    /\ ret[MainThread].kind = "msg"
    /\ \A L \in LuaStates : globals[L]["lqueue"] = NoQueue

\* C28: a Queue reachable from Lua is alive.  Every global written by
\* to_lua designates a Queue whose destructor has not run: after a Queue is
\* destroyed no global of any Lua state refers to it.
C28_GlobalsAlive ==
    \A L \in LuaStates, name_ \in Names :
        globals[L][name_] # NoQueue => globals[L][name_] \notin destructed

----------------------------------------------------------------------------
(* Properties of several Queue instances (SpecTwo) *)

\* C29: Queue instances are independent.  A step of an operation on one
\* instance leaves the sequence and the mutex of every other instance as
\* they are; the sequence of an instance is made of its own pushes and pops
\* and its size() returns its own length; and a thread that requests the
\* mutex of one instance gets it whenever that mutex is free, whoever holds
\* the mutex of another instance, also when the instances are bound to the
\* same Lua state.
C29_Independent ==
    /\ [][/\ others' # others =>
                /\ UNCHANGED <<m_queue, m_mutex, pushed, popped, calls>>
                /\ \A q1, q2 \in OtherQueues :
                      (others'[q1] # others[q1] /\ others'[q2] # others[q2])
                          => q1 = q2
          /\ (m_queue' # m_queue \/ m_mutex' # m_mutex) => others' = others]_vars
    /\ [](m_queue = Unpopped)
    /\ [](\A t \in Threads :
            (pc[t] = "unlock" /\ ret[t].kind = "size") =>
                ret[t].val = Unsigned(Len(m_queue)))
    /\ [](\A q \in OtherQueues, t \in Threads :
            (others[q].pc[t] = "unlock" /\ ret[t].kind = "size") =>
                ret[t].val = Unsigned(Len(others[q].m_queue)))
    /\ [](\A t \in Threads :
            (pc[t] = "lock" /\ m_mutex = NoThread) => ENABLED lock_guard(t))
    /\ [](\A q \in OtherQueues, t \in Threads :
            (others[q].pc[t] = "lock" /\ others[q].m_mutex = NoThread)
                => ENABLED other_lock_guard(q, t))

\* two instances are bound to the same Lua state; one thread waits for the
\* free mutex of ThisQueue while another thread holds the mutex of the
\* other instance, and the two sequences differ
C29_Witness ==
    \E q \in OtherQueues, t1, t2 \in Threads :
        /\ m_lua[ThisQueue] = SharedState
        /\ m_lua[q] = SharedState
        /\ pc[t1] = "lock" /\ m_mutex = NoThread
        /\ others[q].m_mutex = t2
        /\ others[q].m_queue = <<StrItem("X")>>
        /\ m_queue = <<NumItem(31)>>

----------------------------------------------------------------------------
(* Properties of the reads through CopyPtr<T>* (Spec) *)

RECURSIVE PointerPaths(_)
\* where the tree holds CopyPtr<T>* nodes: the paths to them
PointerPaths(item) ==
    IF item.tag = "CopyPtr" THEN {<<>>}
    ELSE IF item.tag = "Map"
    THEN UNION {{<<k>> \o p : p \in PointerPaths(item.val[k])} :
                   k \in DOMAIN item.val}
    ELSE {}

\* the CopyPtr<T>* nodes of its argument that the push of thread t has read
\* through
PointersRead(t) ==
    {p \in frame[t].copied : Stored(frame[t].msg_, p).tag = "CopyPtr"}

\* C30: a CopyPtr<T>* is read during the push that receives it, once per
\* node, and never afterwards.  When the visitor of a push has run it has
\* read through every CopyPtr node of the argument, and no entry of the
\* queue holds a pointer that could be read after the push; the error state
\* is reached only by a push that reads a destroyed referent.
C30_ReadDuringPush ==
    /\ \A t \in Threads :
          (frame[t].op = "push" /\ pc[t] \in {"append", "unlock"}) =>
              PointersRead(t) = PointerPaths(frame[t].msg_)
    /\ \A k \in 1..Len(m_queue) : PointerPaths(m_queue[k]) = {}
    /\ crashed => \E a \in Addrs : ~objects[a].alive

\* what does hold: the statement for the pushes other than push(const
\* Item&) of a Map
C30_ReadDuringPushUnlessConstMap ==
    /\ \A t \in Threads :
          (frame[t].op = "push" /\ pc[t] \in {"append", "unlock"}
             /\ (frame[t].entry # "const_ref" \/ frame[t].msg_.tag # "Map")) =>
              PointersRead(t) = PointerPaths(frame[t].msg_)
    /\ \A k \in 1..Len(m_queue) :
          (PushOfEntry(k).entry # "const_ref" \/ PushOfEntry(k).orig.tag # "Map")
              => PointerPaths(m_queue[k]) = {}
    /\ crashed => \E a \in Addrs : ~objects[a].alive

----------------------------------------------------------------------------
(* Lua states that are closed and created again *)

\* The host closes the Lua state at address L (lua_close) once no Queue is
\* bound to it any more, and a later luaL_newstate() returns the same
\* address: the new state has no registrations and no globals.  The
\* static set bound_states() is keyed by the lua_State* and nothing ever
\* erases from it, so it still holds L.
lua_reopen(L) ==
    /\ ~crashed
    /\ L \in bound_states
    /\ \A q \in Queues : m_lua[q] # L
    /\ registered' = [registered EXCEPT ![L] = <<>>]
    /\ globals' = [globals EXCEPT ![L] = [n \in Names |-> NoQueue]]
    /\ UNCHANGED <<m_queue, m_mutex, objects, pc, frame, ret, nested, result,
                   pushed, popped, calls, crashed, m_lua, bound_states,
                   destructed, pop_attempts, others>>

\* Queues are bound, exposed and destroyed, and the host replaces a Lua
\* state that no Queue uses any more by a new one
NextReopen ==
    \/ \E q \in Queues \ destructed, L \in LuaStates : bind(q, L)
    \/ \E q \in Queues \ destructed, name_ \in Names : to_lua(q, name_)
    \/ \E q \in Queues : destructor(q)
    \/ \E L \in LuaStates : lua_reopen(L)

SpecReopen == Init /\ [][NextReopen]_vars

\* C31: every Lua state a Queue is bound to has size, push and pop
\* registered in it, so that the three methods are callable there, also
\* when the state is a new one at the address of a closed one.
C31_BoundHasOperations ==
    \A q \in Queues :
        m_lua[q] # NoState =>
            \A i \in DOMAIN Registrations :
                LuaMember(m_lua[q], Registrations[i].name)
                    = Registrations[i].member

----------------------------------------------------------------------------
(* The non-template Queue of Queue.hpp / Queue.cpp: a std::queue of
   Message::Item and no mutex.  m_mutex is never written here. *)

\* what the memory front() of an empty std::queue designates decodes to
Garbage == {NoItem, BoolItem(FALSE)}

\* what the tests of Queue.cpp push from Lua: lqueue:push(7) and a table
QueueCppInputs == {NumItem(7), ExampleMap}

\* (pop_attempts counts the pop calls)
\* thread t enters size(), push(const Message&) "const_ref",
\* push(Message&&) "rvalue", push_lua(Item) "lua", pop() "cpp" or
\* pop_lua() "lua": no member function takes a lock, the thread stands
\* before the function's first access of m_queue
Queue_cpp_call(t, op, entry, v) ==
    /\ ~crashed
    /\ pc[t] = "idle"
    /\ op \in {"size", "push", "pop"}
    /\ pc' = [pc EXCEPT ![t] = "body"]
    /\ frame' = [frame EXCEPT ![t] =
                    [op |-> op, entry |-> entry, msg_ |-> v, item |-> NoItem,
                     copied |-> {}, via |-> "direct"]]
    /\ ret' = [ret EXCEPT ![t] = NoRet]
    /\ calls' = IF op = "push" THEN calls + 1 ELSE calls
    /\ pop_attempts' = IF op = "pop" THEN pop_attempts + 1 ELSE pop_attempts
    /\ UNCHANGED <<m_queue, m_mutex, objects, nested, result, pushed, popped,
                   crashed, others>>
    /\ UNCHANGED luaVars

\* unsigned Queue::size () { return m_queue.size(); }
Queue_cpp_size(t) ==
    /\ ~crashed
    /\ pc[t] = "body"
    /\ frame[t].op = "size"
    /\ ret' = [ret EXCEPT ![t] = [kind |-> "size", val |-> Unsigned(Len(m_queue))]]
    /\ pc' = [pc EXCEPT ![t] = "idle"]
    /\ frame' = [frame EXCEPT ![t] = NoFrame]
    /\ UNCHANGED <<m_queue, m_mutex, objects, nested, result, pushed, popped,
                   calls, crashed, pop_attempts, others>>
    /\ UNCHANGED luaVars

\* m_queue.push(msg_.item()), m_queue.push(std::move(msg_.item())) and
\* push_lua's m_queue.push(msg_): the Item of the argument is appended
Queue_cpp_push(t) ==
    /\ ~crashed
    /\ pc[t] = "body"
    /\ frame[t].op = "push"
    /\ m_queue' = Append(m_queue, frame[t].msg_)
    /\ pushed' = Append(pushed, [thread |-> t, entry |-> frame[t].entry,
                                 orig |-> frame[t].msg_, stored |-> frame[t].msg_])
    /\ ret' = [ret EXCEPT ![t] = [kind |-> "void", val |-> NoItem]]
    /\ pc' = [pc EXCEPT ![t] = "idle"]
    /\ frame' = [frame EXCEPT ![t] = NoFrame]
    /\ UNCHANGED <<m_mutex, objects, nested, result, popped, calls, crashed,
                   pop_attempts, others>>
    /\ UNCHANGED luaVars

\* Message msg(std::move(m_queue.front()));  (pop_lua: Message::Item msg)
\* There is no test for the empty queue: front() of an empty std::queue is
\* undefined behaviour, the process dies or the statement reads whatever
\* the memory holds.
Queue_cpp_front(t) ==
    /\ ~crashed
    /\ pc[t] = "body"
    /\ frame[t].op = "pop"
    /\ IF m_queue = <<>>
       THEN \/ /\ crashed' = TRUE
               /\ UNCHANGED <<pc, frame>>
            \/ /\ \E g \in Garbage : frame' = [frame EXCEPT ![t].item = g]
               /\ pc' = [pc EXCEPT ![t] = "dequeue"]
               /\ UNCHANGED crashed
       ELSE /\ frame' = [frame EXCEPT ![t].item = Head(m_queue)]
            /\ pc' = [pc EXCEPT ![t] = "dequeue"]
            /\ UNCHANGED crashed
    /\ UNCHANGED <<m_queue, m_mutex, objects, ret, nested, result, pushed,
                   popped, calls, pop_attempts, others>>
    /\ UNCHANGED luaVars

\* m_queue.pop(); return msg;  pop() returns a Message and pop_lua() an
\* Item: the return type has no "no value".  pop() of an empty std::queue
\* is undefined behaviour: the process dies, or the call returns what
\* front() left in msg.
Queue_cpp_pop(t) ==
    /\ ~crashed
    /\ pc[t] = "dequeue"
    /\ LET returned ==
               /\ ret' = [ret EXCEPT ![t] =
                             IF frame[t].entry = "cpp"
                             THEN [kind |-> "msg", val |-> Message(frame[t].item)]
                             ELSE [kind |-> "item", val |-> frame[t].item]]
               /\ popped' = Append(popped, frame[t].item)
               /\ pc' = [pc EXCEPT ![t] = "idle"]
               /\ frame' = [frame EXCEPT ![t] = NoFrame]
               /\ UNCHANGED crashed
       IN  IF m_queue = <<>>
           THEN \/ /\ crashed' = TRUE
                   /\ UNCHANGED <<m_queue, pc, frame, ret, popped>>
                \/ /\ UNCHANGED m_queue
                   /\ returned
           ELSE /\ m_queue' = Tail(m_queue)
                /\ returned
    /\ UNCHANGED <<m_mutex, objects, nested, result, pushed, calls,
                   pop_attempts, others>>
    /\ UNCHANGED luaVars

\* thread t is inside a member function, at an access of m_queue
AtAccess(t) == pc[t] \in {"body", "dequeue"}

\* Threads t and u run their accesses of m_queue at the same time and one
\* of the two writes: a data race, which is undefined behaviour.  The
\* process dies, or, of two pushes that write the same slot of the
\* container, one is lost.  (The outcomes where the accesses take effect
\* one after the other are the steps above.)
Queue_cpp_race(t, u) ==
    /\ ~crashed
    /\ t # u
    /\ AtAccess(t) /\ AtAccess(u)
    /\ frame[t].op # "size" \/ frame[u].op # "size"
    /\ \/ /\ crashed' = TRUE
          /\ UNCHANGED <<m_queue, pc, frame, ret, pushed>>
       \/ /\ frame[t].op = "push" /\ frame[u].op = "push"
          /\ m_queue' = Append(m_queue, frame[t].msg_)
          /\ pushed' = pushed \o
                <<[thread |-> t, entry |-> frame[t].entry,
                   orig |-> frame[t].msg_, stored |-> frame[t].msg_],
                  [thread |-> u, entry |-> frame[u].entry,
                   orig |-> frame[u].msg_, stored |-> frame[u].msg_]>>
          /\ ret' = [ret EXCEPT ![t] = [kind |-> "void", val |-> NoItem],
                                ![u] = [kind |-> "void", val |-> NoItem]]
          /\ pc' = [pc EXCEPT ![t] = "idle", ![u] = "idle"]
          /\ frame' = [frame EXCEPT ![t] = NoFrame, ![u] = NoFrame]
          /\ UNCHANGED crashed
    /\ UNCHANGED <<m_mutex, objects, nested, result, popped, calls,
                   pop_attempts, others>>
    /\ UNCHANGED luaVars

\* Any number of threads call size, push and pop of one Queue (the README
\* announces "a thread-safe message queue between Lua and C++"); the main
\* thread, which runs the Lua state, also comes in through push_lua and
\* pop_lua.
NextQueueCpp ==
    \/ \E t \in Threads, entry \in {"const_ref", "rvalue"} :
          calls < MaxLivePushes
          /\ Queue_cpp_call(t, "push", entry, ProducerItem(t))
    \/ \E v \in QueueCppInputs :
          calls < MaxLivePushes
          /\ Queue_cpp_call(MainThread, "push", "lua", v)
    \/ \E t \in Threads :
          pop_attempts < MaxPops /\ Queue_cpp_call(t, "pop", "cpp", NoItem)
    \/ pop_attempts < MaxPops /\ Queue_cpp_call(MainThread, "pop", "lua", NoItem)
    \/ \E t \in Threads : Queue_cpp_call(t, "size", "cpp", NoItem)
    \/ \E t \in Threads : Queue_cpp_size(t)
    \/ \E t \in Threads : Queue_cpp_push(t)
    \/ \E t \in Threads : Queue_cpp_front(t)
    \/ \E t \in Threads : Queue_cpp_pop(t)
    \/ \E t, u \in Threads : Queue_cpp_race(t, u)

SpecQueueCpp == Init /\ [][NextQueueCpp]_vars

\* C32: in the Queue of Queue.cpp, pop() and pop_lua() on a queue with no
\* entries return "no value", without reading or removing anything and
\* without ending the process, and leave the queue empty so that size()
\* reports 0.
C32_QueueCppEmptyPop ==
    [][\A t \in Threads :
          (/\ pc[t] = "body"
           /\ frame[t].op = "pop"
           /\ m_queue = <<>>
           /\ \A u \in Threads \ {t} : pc[u] = "idle"
           /\ pc'[t] # pc[t] \/ crashed')
          => /\ ~crashed'
             /\ pc'[t] = "idle"
             /\ ret'[t] = [kind |-> "none", val |-> NoItem]
             /\ m_queue' = <<>>]_vars

\* no two threads are at an access of the internal sequence at once
QueueCppExclusive ==
    \A t, u \in Threads : AtAccess(t) /\ AtAccess(u) => t = u

\* once every thread has returned, the entries popped and the entries
\* left are, in order, the entries pushed
QueueCppConserved ==
    AllReturned =>
        /\ Len(popped) + Len(m_queue) = Len(pushed)
        /\ \A i \in 1..Len(pushed) :
              pushed[i].stored = (popped \o m_queue)[i]

\* C33: in the Queue of Queue.cpp, concurrent calls are serialized.  No
\* two threads are at an access of the internal sequence at the same
\* time, the process does not die of a race, and no entry is lost, handed
\* out twice or altered.
C33_QueueCppSerialized ==
    /\ QueueCppExclusive
    /\ ~crashed
    /\ QueueCppConserved

----------------------------------------------------------------------------
(* The Queue of Queue.cpp and Lua: the static Queue::lua, to_lua, and the
   two ends of a Queue's life.  bound_states stands for the static
   unique_ptr Queue::lua: empty while it is null, else the one Lua state
   its LuaContext wraps. *)

\* Queue::bind(lua_State* L) and Queue::bind(LuaContext*):
\*   if (Queue::lua.get() != nullptr) return;
\*   Queue::lua = ...; registerFunction x 3
Queue_cpp_bind(L) ==
    /\ ~crashed
    /\ IF bound_states # {}
       THEN UNCHANGED <<bound_states, registered>>
       ELSE /\ bound_states' = {L}
            /\ registered' = [registered EXCEPT ![L] = @ \o Registrations]
    /\ UNCHANGED <<m_queue, m_mutex, objects, pc, frame, ret, nested, result,
                   pushed, popped, calls, crashed, m_lua, globals, destructed,
                   pop_attempts, others>>

\* Queue::to_lua(name_) of instance q:
\*   Queue::lua->writeVariable(name_, std::shared_ptr<Queue>(this));
\* the global holds a shared_ptr that owns q; it is the only one of its
\* control block.  Before bind Queue::lua is null and the call through it
\* is undefined behaviour.
Queue_cpp_to_lua(q, name_) ==
    /\ ~crashed
    /\ IF bound_states = {}
       THEN /\ crashed' = TRUE
            /\ UNCHANGED globals
       ELSE /\ globals' = [L \in LuaStates |->
                              IF L \in bound_states
                              THEN [globals[L] EXCEPT ![name_] = q]
                              ELSE globals[L]]
            /\ UNCHANGED crashed
    /\ UNCHANGED <<m_queue, m_mutex, objects, pc, frame, ret, nested, result,
                   pushed, popped, calls, m_lua, bound_states, registered,
                   destructed, pop_attempts, others>>

\* Queue::~Queue () {} run by the owner: the Queue is a local of its block
\* (Queue queue; in the tests) and leaves it
Queue_cpp_destructor(q) ==
    /\ ~crashed
    /\ q \notin destructed
    /\ destructed' = destructed \cup {q}
    /\ UNCHANGED <<m_queue, m_mutex, objects, pc, frame, ret, nested, result,
                   pushed, popped, calls, crashed, m_lua, bound_states,
                   registered, globals, pop_attempts, others>>

\* The Lua state lets go of the value of the global name_ (the global is
\* set to nil and collected, or the state is closed when the static
\* Queue::lua is destroyed): the shared_ptr<Queue> in it is destroyed, its
\* use count falls to zero and it runs delete on the Queue.  On a Queue the
\* owner still has, ~Queue runs and memory that did not come from new is
\* freed; on a Queue whose destructor has run, it runs again on a dead
\* object.  Both are undefined behaviour: the process dies or goes on.
Queue_cpp_release(L, name_) ==
    /\ ~crashed
    /\ globals[L][name_] # NoQueue
    /\ globals' = [globals EXCEPT ![L][name_] = NoQueue]
    /\ destructed' = destructed \cup {globals[L][name_]}
    /\ crashed' \in BOOLEAN
    /\ UNCHANGED <<m_queue, m_mutex, objects, pc, frame, ret, nested, result,
                   pushed, popped, calls, m_lua, bound_states, registered,
                   pop_attempts, others>>

\* The tests' use: Queue::bind(), then in each block a local Queue that is
\* exposed with to_lua and destroyed at the end of the block, while the
\* Lua state lives on and drops its values when it pleases.
NextQueueCppLife ==
    \/ \E L \in LuaStates : Queue_cpp_bind(L)
    \/ \E q \in Queues \ destructed, name_ \in Names : Queue_cpp_to_lua(q, name_)
    \/ \E q \in Queues : Queue_cpp_destructor(q)
    \/ \E L \in LuaStates, name_ \in Names : Queue_cpp_release(L, name_)

SpecQueueCppLife == Init /\ [][NextQueueCppLife]_vars

\* C34: in the Queue of Queue.cpp, to_lua does not hand the ownership of
\* the Queue to the Lua state.  When the Lua state lets go of its handle
\* to a Queue, no destructor runs: a Queue the owner still has stays
\* alive, and a Queue the owner has destroyed is not destroyed a second
\* time (the process does not run into undefined behaviour).
C34_NoOwnershipTransfer ==
    [][\A L \in LuaStates, name_ \in Names :
          (globals[L][name_] # NoQueue /\ globals'[L][name_] = NoQueue)
          => /\ destructed' = destructed
             /\ ~crashed']_vars

----------------------------------------------------------------------------
(* Long queues.  std::queue::size() returns a size_type of 64 bits and
   size_unsafe returns it as unsigned.  Lengths around 2^32 are beyond
   the integers of the checker: they are written in two digits of base
   2^16, and a long queue, which holds the same Item over and over (a
   producer's loop), is kept as one run of that Item. *)

Base == 2^16

\* the number hi * 2^16 + lo
Wide(hi, lo) == [hi |-> hi, lo |-> lo]

WideSucc(n) ==
    IF n.lo = Base - 1 THEN Wide(n.hi + 1, 0) ELSE Wide(n.hi, n.lo + 1)

WidePred(n) ==
    IF n.lo = 0 THEN Wide(n.hi - 1, Base - 1) ELSE Wide(n.hi, n.lo - 1)

\* the bits of unsigned, the return type of size_unsafe and size
UnsignedBits == 32

\* the conversion of a size_type to unsigned: the value modulo 2^32
Narrow(n) == Wide(n.hi % (2^(UnsignedBits - 16)), n.lo)

\* count copies of item, one after the other
Run(item, count) == [tag |-> "Run", val |-> [item |-> item, count |-> count]]

\* the Item the producer's loop pushes
LongItem == NumItem(1)

\* m_queue.size(): the number of entries of the run
LongLength ==
    IF m_queue = <<>> THEN Wide(0, 0) ELSE m_queue[1].val.count

\* Queue::size_unsafe on a long queue
long_size_unsafe == Narrow(LongLength)

\* the lengths a long queue starts with: 1, 2^32 - 1, 2^32, 2^32 + 1, 2^33
LongLengths ==
    {Wide(0, 1), Wide(Base - 1, Base - 1), Wide(Base, 0), Wide(Base, 1),
     Wide(2 * Base, 0)}

\* m_queue.push(std::move(item)) on a long queue
long_push_append(t) ==
    /\ ~crashed
    /\ pc[t] = "append"
    /\ frame[t].item = LongItem
    /\ m_queue' = <<Run(LongItem, WideSucc(LongLength))>>
    /\ pushed' = Append(pushed, [thread |-> t, entry |-> frame[t].entry,
                                 orig |-> frame[t].msg_, stored |-> frame[t].item])
    /\ ret' = [ret EXCEPT ![t] = [kind |-> "void", val |-> NoItem]]
    /\ pc' = [pc EXCEPT ![t] = "unlock"]
    /\ UNCHANGED <<m_mutex, objects, frame, nested, result, popped, calls,
                   crashed>>
    /\ UNCHANGED luaVars
    /\ UNCHANGED <<pop_attempts, others>>

\* if (!size_unsafe()) return boost::none;  on a long queue
long_pop_check(t) ==
    /\ ~crashed
    /\ pc[t] = "body"
    /\ frame[t].op = "pop"
    /\ IF long_size_unsafe = Wide(0, 0)
       THEN /\ ret' = [ret EXCEPT ![t] = [kind |-> "none", val |-> NoItem]]
            /\ pc' = [pc EXCEPT ![t] = "unlock"]
       ELSE /\ pc' = [pc EXCEPT ![t] = "front"]
            /\ UNCHANGED ret
    /\ UNCHANGED <<m_queue, m_mutex, objects, frame, nested, result, pushed,
                   popped, calls, crashed>>
    /\ UNCHANGED luaVars
    /\ UNCHANGED <<pop_attempts, others>>

\* Msg msg(std::move(m_queue.front())) on a long queue
long_pop_front(t) ==
    /\ ~crashed
    /\ pc[t] = "front"
    /\ IF m_queue = <<>>
       THEN /\ crashed' = TRUE
            /\ UNCHANGED <<pc, frame>>
       ELSE /\ frame' = [frame EXCEPT ![t].item = m_queue[1].val.item]
            /\ pc' = [pc EXCEPT ![t] = "dequeue"]
            /\ UNCHANGED crashed
    /\ UNCHANGED <<m_queue, m_mutex, objects, ret, nested, result, pushed,
                   popped, calls>>
    /\ UNCHANGED luaVars
    /\ UNCHANGED <<pop_attempts, others>>

\* m_queue.pop(); return msg;  on a long queue
long_pop_dequeue(t) ==
    /\ ~crashed
    /\ pc[t] = "dequeue"
    /\ m_queue # <<>>
    /\ m_queue' = IF LongLength = Wide(0, 1)
                  THEN <<>>
                  ELSE <<Run(m_queue[1].val.item, WidePred(LongLength))>>
    /\ ret' = [ret EXCEPT ![t] =
                  IF frame[t].entry = "cpp"
                  THEN [kind |-> "msg", val |-> Message(frame[t].item)]
                  ELSE [kind |-> "item", val |-> frame[t].item]]
    /\ popped' = Append(popped, frame[t].item)
    /\ pc' = [pc EXCEPT ![t] = "unlock"]
    /\ UNCHANGED <<m_mutex, objects, frame, nested, result, pushed, calls,
                   crashed>>
    /\ UNCHANGED luaVars
    /\ UNCHANGED <<pop_attempts, others>>

\* return size_unsafe();  on a long queue
long_size_read(t) ==
    /\ ~crashed
    /\ pc[t] = "body"
    /\ frame[t].op = "size"
    /\ ret' = [ret EXCEPT ![t] = [kind |-> "size", val |-> Unsigned(long_size_unsafe)]]
    /\ pc' = [pc EXCEPT ![t] = "unlock"]
    /\ UNCHANGED <<m_queue, m_mutex, objects, frame, nested, result, pushed,
                   popped, calls, crashed>>
    /\ UNCHANGED luaVars
    /\ UNCHANGED <<pop_attempts, others>>

\* the Queue after a producer's loop has pushed LongItem n times
InitLong ==
    /\ m_queue \in {<<>>} \cup {<<Run(LongItem, n)>> : n \in LongLengths}
    /\ m_mutex = NoThread
    /\ objects = [a \in Addrs |-> [alive |-> TRUE, val |-> LiveVal]]
    /\ pc = [t \in Threads |-> "idle"]
    /\ frame = [t \in Threads |-> NoFrame]
    /\ ret = [t \in Threads |-> NoRet]
    /\ nested = [t \in Threads |-> NoNested]
    /\ result = [t \in Threads |-> NoResult]
    /\ pushed = <<>>
    /\ popped = <<>>
    /\ calls = 0
    /\ crashed = FALSE
    /\ m_lua = [q \in Queues |-> NoState]
    /\ bound_states = {}
    /\ registered = [L \in LuaStates |-> <<>>]
    /\ globals = [L \in LuaStates |-> [name \in Names |-> NoQueue]]
    /\ destructed = {}
    /\ pop_attempts = 0
    /\ others = [q \in OtherQueues |-> NoOther]

\* one caller pushes, pops on either side and asks the size of a queue of
\* any length
NextLong ==
    \/ \E entry \in {"rvalue", "lua"} :
          calls < MaxLivePushes /\ call_push(MainThread, entry, LongItem)
    \/ \E entry \in {"cpp", "lua"} :
          pop_attempts < MaxPops /\ worker_pop(MainThread, entry)
    \/ call_size(MainThread)
    \/ lock_guard(MainThread)
    \/ push_copy(MainThread)
    \/ long_push_append(MainThread)
    \/ long_pop_check(MainThread)
    \/ long_pop_front(MainThread)
    \/ long_pop_dequeue(MainThread)
    \/ long_size_read(MainThread)
    \/ unlock(MainThread)

SpecLong == InitLong /\ [][NextLong]_vars

\* C35: at every length of the internal sequence, lengths of 2^32 and
\* more included, pop returns "no value" only when the sequence holds no
\* entry, and size returns the number of entries stored.
C35_ExactAtEveryLength ==
    [][\A t \in Threads :
          (pc[t] = "body" /\ pc'[t] = "unlock")
          => /\ (frame[t].op = "pop" /\ ret'[t].kind = "none") => m_queue = <<>>
             /\ frame[t].op = "size" => ret'[t].val = Unsigned(LongLength)]_vars

====
